---- MODULE Spec2Model ----
(***************************************************************************)
(* Model of src/scraper/alphacard_scraper.py (WooCommerceAlphaCardScraper). *)
(* Python strings are TLA+ strings; every conv_text operation of the source is  *)
(* computed character by character on them.                                *)
(***************************************************************************)
EXTENDS Integers, Sequences, FiniteSets, TLC

VARIABLES
    url,              \* is_printer_url: the link under classification
    url_pc,           \* is_printer_url: "idle" | "input" | "classified"
    verdict,          \* is_printer_url: the value returned
    soup_id,          \* extract_printer_data: the page get_page returned (0: None)
    agg_raise,       \* extract_printer_data: the extractor step that raises (0: none)
    step,             \* extract_printer_data: the next extractor step of the try block
    agg_data,         \* extract_printer_data: the record under construction
    agg_pc,           \* extract_printer_data: "idle" | "fetch" | "try" | "return" | "done"
    agg_ret,          \* extract_printer_data: the value returned, <<>> for None
    pc,               \* main: "idle" | "find" | "scrape" | "main" | "save" | "done"
    cat_idx,          \* find_printer_urls: index of the next category
    printer_urls,     \* find_printer_urls: the set of product URLs found
    todo,             \* scrape_all_printers: the URLs still to be processed
    calls,            \* history: the calls of extract_printer_data, in order
    rediscovered,     \* history: a link to a product URL already found was met
    printers_data,    \* self.printers_data
    all_spec_columns, \* self.all_spec_columns
    exported,         \* save_results: the files were written
    exit_code,        \* main: "none" | "ok" | "fail"
    fragment,         \* Fragment Repair: the markup of the container
    fragment_pc,      \* Fragment Repair: "idle" | "input" | "description" | "highlights"
    repaired,         \* Fragment Repair: the markup returned
    conv_text,        \* convert_measurements: the text passed
    conv_pc,          \* convert_measurements: "idle" | "input" | "once" | "twice"
    converted,        \* convert_measurements: the results of the successive calls
    col_name,         \* clean_column_name: the label passed
    col_pc,           \* clean_column_name: "idle" | "input" | "once" | "twice"
    col_clean,        \* clean_column_name: the results of the successive calls
    usd,              \* convert_usd_to_aud: the price passed
    usd_pc,           \* convert_usd_to_aud: "idle" | "input" | "returned" | "raised"
    aud,              \* convert_usd_to_aud: the value returned
    doc,              \* list extractors: the parsed document passed
    doc_pc,           \* list extractors: "idle" | "input" | "categories" | "images" | "specifications"
    extracted,        \* list extractors: the value returned
    doc_data,         \* list extractors: the record after the extractor's step
    fetch_url,        \* get_page: the URL passed
    retries,          \* get_page: the retries parameter
    attempt,          \* get_page: the loop variable
    fetch_pc,         \* get_page: "idle" | "loop" | "done"
    fetch_ret,        \* get_page: the value returned, "soup" or None
    requests,         \* history: the number of session.get calls
    slept             \* history: the durations passed to time.sleep, in order

urlVars == <<url, url_pc, verdict>>
aggVars == <<soup_id, agg_raise, step, agg_data, agg_pc, agg_ret>>
walkVars == <<pc, cat_idx, printer_urls, todo, calls, rediscovered, printers_data, exported, exit_code>>
fragVars == <<fragment, fragment_pc, repaired>>
convVars == <<conv_text, conv_pc, converted>>
colVars == <<col_name, col_pc, col_clean>>
audVars == <<usd, usd_pc, aud>>
docVars == <<doc, doc_pc, extracted, doc_data>>
fetchVars == <<fetch_url, retries, attempt, fetch_pc, fetch_ret, requests, slept>>

vars == <<url, url_pc, verdict, soup_id, agg_raise, step, agg_data, agg_pc, agg_ret,
          pc, cat_idx, printer_urls, todo, calls, rediscovered, printers_data, all_spec_columns,
          exported, exit_code, fragment, fragment_pc, repaired, conv_text, conv_pc, converted,
          col_name, col_pc, col_clean, usd, usd_pc, aud, doc, doc_pc, extracted, doc_data,
          fetch_url, retries, attempt, fetch_pc, fetch_ret, requests, slept>>

(***************************************************************************)
(* Text primitives (Python str methods used by the source).                *)
(***************************************************************************)
\* Python computes a value where it binds it: Bound(v, e) is e, evaluated once v is
Bound(v, e) == IF v = v THEN e ELSE e

UpperChars == "ABCDEFGHIJKLMNOPQRSTUVWXYZ"
LowerChars == "abcdefghijklmnopqrstuvwxyz"
DigitChars == "0123456789"

CharAt(s, i) == SubSeq(s, i, i)

InChars(c, chars) == \E i \in 1..Len(chars) : CharAt(chars, i) = c

IndexIn(c, chars) == CHOOSE i \in 1..Len(chars) : CharAt(chars, i) = c

\* str.lower() of one character
LowerChar(c) == IF InChars(c, UpperChars) THEN CharAt(LowerChars, IndexIn(c, UpperChars)) ELSE c

\* str.lower(), character by character (the text is halved to keep the evaluation shallow)
RECURSIVE Lower(_)
Lower(s) == IF Len(s) <= 1 THEN LowerChar(s)
            ELSE Lower(SubSeq(s, 1, Len(s) \div 2)) \o Lower(SubSeq(s, Len(s) \div 2 + 1, Len(s)))

\* sub is a substring of s starting at position i
MatchesAt(s, i, sub) == i >= 1 /\ i + Len(sub) - 1 <= Len(s) /\ SubSeq(s, i, i + Len(sub) - 1) = sub

\* Python: sub in s
Contains(s, sub) == \E i \in 1..(Len(s) + 1) : MatchesAt(s, i, sub)

\* Python: s.endswith(sub)
EndsWith(s, sub) == Len(sub) <= Len(s) /\ SubSeq(s, Len(s) - Len(sub) + 1, Len(s)) = sub

\* Python: s.startswith(sub)
StartsWith(s, sub) == MatchesAt(s, 1, sub)

\* Python: s.strip(c) for a one-character c
RECURSIVE LStripChar(_, _)
LStripChar(s, c) == IF s # "" /\ CharAt(s, 1) = c THEN LStripChar(SubSeq(s, 2, Len(s)), c) ELSE s

RECURSIVE RStripChar(_, _)
RStripChar(s, c) == IF s # "" /\ CharAt(s, Len(s)) = c THEN RStripChar(SubSeq(s, 1, Len(s) - 1), c) ELSE s

StripChar(s, c) == RStripChar(LStripChar(s, c), c)

\* position of the first occurrence of the one-character c in s, 0 if none
FirstPosOf(s, c) == IF \E i \in 1..Len(s) : CharAt(s, i) = c
                    THEN CHOOSE i \in 1..Len(s) : CharAt(s, i) = c /\ \A j \in 1..(i - 1) : CharAt(s, j) # c
                    ELSE 0

\* Python: s.split(c) for a one-character c (the empty string splits into [''])
RECURSIVE Split(_, _)
Split(s, c) == LET p == FirstPosOf(s, c)
               IN  IF p = 0 THEN <<s>>
                   ELSE <<SubSeq(s, 1, p - 1)>> \o Split(SubSeq(s, p + 1, Len(s)), c)

\* position of the first occurrence of a non-empty sub in s, 0 if none
FirstIndexOf(s, sub) == IF Contains(s, sub)
                        THEN CHOOSE i \in 1..Len(s) : MatchesAt(s, i, sub) /\ \A j \in 1..(i - 1) : ~MatchesAt(s, j, sub)
                        ELSE 0

\* Python: s.replace(old, new) for a non-empty old (all occurrences, left to right)
RECURSIVE ReplaceAll(_, _, _)
ReplaceAll(s, old, new) ==
    LET p == FirstIndexOf(s, old)
    IN  IF p = 0 THEN s
        ELSE SubSeq(s, 1, p - 1) \o new \o ReplaceAll(SubSeq(s, p + Len(old), Len(s)), old, new)

\* Python: s.replace(old, new, 1) for a non-empty old
ReplaceFirst(s, old, new) ==
    LET p == FirstIndexOf(s, old)
    IN  IF p = 0 THEN s
        ELSE SubSeq(s, 1, p - 1) \o new \o SubSeq(s, p + Len(old), Len(s))

\* Python: sep.join(parts)
RECURSIVE Join(_, _)
Join(parts, sep) == IF parts = <<>> THEN ""
                    ELSE IF Len(parts) = 1 THEN parts[1]
                    ELSE parts[1] \o sep \o Join(Tail(parts), sep)

(***************************************************************************)
(* The re module: a pattern is a sequence of items.                        *)
(*   Lit(x)            the literal text x                                  *)
(*   Alt(<<x, y>>)     (?:x|y), literal alternatives                       *)
(*   Rep(cls,neg,lo,hi,greedy)  lo..hi characters (hi = -1: no limit) of   *)
(*                     the class cls, or of its complement when neg        *)
(*   Open(g), Close(g) the parentheses of capture group g                  *)
(*   NotAhead(p)       (?!p)                                               *)
(* Python's matcher backtracks: at every item it takes the most preferred  *)
(* way to match it (greedy: longest first, lazy: shortest first,           *)
(* alternatives left to right) after which the rest of the pattern can     *)
(* still match.  The model computes, item by item from the last, the       *)
(* positions from which the rest of the pattern can match, then walks the  *)
(* pattern forward taking at each item the most preferred such way.        *)
(***************************************************************************)
WhitespaceChars == " \t\n\r"
WordChars == LowerChars \o UpperChars \o DigitChars \o "_"

Lit(x) == [t |-> "lit", s |-> x]
Alt(xs) == [t |-> "alt", alts |-> xs]
Rep(cls, neg, lo, hi, greedy) == [t |-> "rep", cls |-> cls, neg |-> neg, lo |-> lo, hi |-> hi, greedy |-> greedy]
Open(g) == [t |-> "open", g |-> g]
Close(g) == [t |-> "close", g |-> g]
NotAhead(p) == [t |-> "nla", p |-> p]

Digits1 == Rep(DigitChars, FALSE, 1, -1, TRUE)          \* \d+
Digits0 == Rep(DigitChars, FALSE, 0, -1, TRUE)          \* \d*
OptDot == Rep(".", FALSE, 0, 1, TRUE)                   \* \.?
Spaces0 == Rep(WhitespaceChars, FALSE, 0, -1, TRUE)     \* \s*
Spaces1 == Rep(WhitespaceChars, FALSE, 1, -1, TRUE)     \* \s+
LazyAny == Rep("\n", TRUE, 0, -1, FALSE)                \* .*?
GreedyAny == Rep("\n", TRUE, 0, -1, TRUE)               \* .*
Number(g) == <<Open(g), Digits1, OptDot, Digits0, Close(g)>>  \* (\d+\.?\d*)

MaxGroups == 3
NoCaps == [g \in 1..MaxGroups |-> <<0, 0>>]
NoMatch == [ok |-> FALSE, start |-> 0, pos |-> 0, caps |-> NoCaps]

\* the positions of s: before each character, and the end
Positions(s) == 1..(Len(s) + 1)

InClass(c, item) == IF item.neg THEN ~InChars(c, item.cls) ELSE InChars(c, item.cls)

\* the first position from i on that holds no character of the item's class
RunEnd(s, i, item) ==
    CHOOSE j \in i..(Len(s) + 1) :
        /\ (j = Len(s) + 1 \/ ~InClass(CharAt(s, j), item))
        /\ \A y \in i..(j - 1) : InClass(CharAt(s, y), item)

\* number of consecutive characters of the item's class from position i, at most hi
RunLen(s, i, item) ==
    IF item.hi # -1 /\ RunEnd(s, i, item) - i > item.hi THEN item.hi ELSE RunEnd(s, i, item) - i

\* where a repetition that can take up to m characters at i may end, most preferred first
RepEnds(item, i, m) ==
    IF m < item.lo THEN <<>>
    ELSE [x \in 1..(m - item.lo + 1) |-> IF item.greedy THEN i + m - (x - 1) ELSE i + item.lo + (x - 1)]

\* where the alternatives that match at i end, leftmost alternative first
AltEnds(hits, i) == [x \in 1..Len(hits) |-> i + Len(hits[x])]

\* where a match of the item at position i may end, most preferred first
Ends(item, s, i) ==
    CASE item.t = "lit" -> IF MatchesAt(s, i, item.s) THEN <<i + Len(item.s)>> ELSE <<>>
      [] item.t = "alt" -> AltEnds(SelectSeq(item.alts, LAMBDA a : MatchesAt(s, i, a)), i)
      [] item.t = "rep" -> RepEnds(item, i, RunLen(s, i, item))
      [] OTHER -> <<i>>

\* some way to match the item at i ends in a position of T
EndsIn(ends, T) == \E x \in 1..Len(ends) : ends[x] \in T

\* the most preferred way to match the item at i that ends in a position of T
FirstEndIn(ends, T) == ends[CHOOSE x \in 1..Len(ends) : ends[x] \in T /\ \A y \in 1..(x - 1) : ends[y] \notin T]

RECURSIVE CanMatchFrom(_, _, _, _, _)

\* the positions where p matches
CanStart(p, s) == CanMatchFrom(p, s, 1, Len(p), Positions(s))[1]

\* the positions from which the item can match and leave the matcher in a position of T
CanMatchItem(item, s, T) ==
    IF item.t = "nla" THEN {i : i \in T \ CanStart(item.p, s)}
    ELSE {i : i \in {j \in Positions(s) : EndsIn(Ends(item, s, j), T)}}

\* for each of the items a..b of p, the positions from which the items from it to b
\* can match and leave the matcher in a position of T (the items are taken last to
\* first; the range is halved to keep the evaluation shallow)
CanMatchFrom(p, s, a, b, T) ==
    IF a = b THEN <<CanMatchItem(p[a], s, T)>>
    ELSE LET right == CanMatchFrom(p, s, (a + b) \div 2 + 1, b, T)
             left == CanMatchFrom(p, s, a, (a + b) \div 2, right[1])
         IN  Bound(right, Bound(left, left \o right))

\* can[k]: the positions from which the items k.. of p can match; can[Len(p) + 1]: all
CanMatch(p, s) == CanMatchFrom(p, s, 1, Len(p), Positions(s)) \o <<Positions(s)>>

\* the position after each of the items a..b of p in the match that starts item a at i
RECURSIVE Walk(_, _, _, _, _, _)
Walk(p, s, can, a, b, i) ==
    IF a = b THEN <<IF p[a].t = "nla" THEN i ELSE FirstEndIn(Ends(p[a], s, i), can[a + 1])>>
    ELSE LET left == Walk(p, s, can, a, (a + b) \div 2, i)
         IN  Bound(left, left \o Walk(p, s, can, (a + b) \div 2 + 1, b, left[Len(left)]))

\* the item of p that opens (closes) group g, 0 if there is none
ItemOf(p, t, g) == IF \E k \in 1..Len(p) : p[k].t = t /\ p[k].g = g
                   THEN CHOOSE k \in 1..Len(p) : p[k].t = t /\ p[k].g = g ELSE 0

\* at[k]: the position of the matcher before item k; at[Len(p) + 1]: after the match
CapsOf(p, at) ==
    [g \in 1..MaxGroups |-> IF ItemOf(p, "open", g) = 0 THEN <<0, 0>>
                            ELSE <<at[ItemOf(p, "open", g)], at[ItemOf(p, "close", g)] - 1>>]

\* a match object: start, pos (the position after the match), the capture groups
MatchOf(p, i, at) == [ok |-> TRUE, start |-> i, pos |-> at[Len(p) + 1], caps |-> CapsOf(p, at)]

\* the match of p at position i
MatchWith(p, s, can, i) ==
    IF i \in can[1] THEN MatchOf(p, i, <<i>> \o Walk(p, s, can, 1, Len(p), i)) ELSE NoMatch

\* re.match(p, s, pos=i)
MatchFrom(p, s, i) == MatchWith(p, s, CanMatch(p, s), i)

\* the leftmost start of a match at position i or later, 0 if none
FirstStart(starts, i) ==
    IF \E j \in starts : j >= i
    THEN CHOOSE j \in starts : j >= i /\ \A y \in starts : y >= i => j <= y
    ELSE 0

\* the first match that starts at position i or later
SearchWith(p, s, can, i) ==
    IF FirstStart(can[1], i) = 0 THEN NoMatch ELSE MatchWith(p, s, can, FirstStart(can[1], i))

SearchFrom(p, s, i) == SearchWith(p, s, CanMatch(p, s), i)

\* re.IGNORECASE: the patterns of the source that use it are lower-case, so matching
\* is done on the lower-cased text; the positions are those of the text itself
Subject(s, ic) == IF ic THEN Lower(s) ELSE s

SearchIn(p, subject) == Bound(subject, SearchFrom(p, subject, 1))

\* re.search(p, s)
Search(p, s, ic) == SearchIn(p, Subject(s, ic))

\* match.group(0), match.group(g)
Group0(s, m) == SubSeq(s, m.start, m.pos - 1)
Group(s, m, g) == SubSeq(s, m.caps[g][1], m.caps[g][2])

\* the non-overlapping matches from position i on, left to right
RECURSIVE FindAllWith(_, _, _, _)
FindAllWith(p, s, can, i) ==
    LET m == SearchWith(p, s, can, i) IN
    IF ~m.ok THEN <<>>
    ELSE <<m>> \o FindAllWith(p, s, can, IF m.pos > m.start THEN m.pos ELSE m.pos + 1)

FindAllFrom(p, s, i) == FindAllWith(p, s, CanMatch(p, s), i)

FindIn(p, subject) == Bound(subject, FindAllFrom(p, subject, 1))

\* list(re.finditer(p, s))
FindIter(p, s, ic) == FindIn(p, Subject(s, ic))

\* re.sub(p, repl, s) for a literal repl and a pattern that matches no empty text
RECURSIVE SubWith(_, _, _, _, _)
SubWith(p, repl, s, can, i) ==
    LET m == SearchWith(p, s, can, i) IN
    IF ~m.ok THEN SubSeq(s, i, Len(s))
    ELSE SubSeq(s, i, m.start - 1) \o repl \o SubWith(p, repl, s, can, m.pos)

SubFrom(p, repl, s, i) == SubWith(p, repl, s, CanMatch(p, s), i)

Sub(p, repl, s) == Bound(s, SubFrom(p, repl, s, 1))

(***************************************************************************)
(* Numbers: float(text) of a text matching \d+\.?\d* is the pair           *)
(* [n, d] standing for n / 10^d; round() and str() of floats are computed  *)
(* in decimal.                                                             *)
(***************************************************************************)
RECURSIVE Pow10(_)
Pow10(d) == IF d = 0 THEN 1 ELSE 10 * Pow10(d - 1)

DigitVal(c) == IndexIn(c, DigitChars) - 1

RECURSIVE StrToInt(_)
StrToInt(s) == IF s = "" THEN 0 ELSE StrToInt(SubSeq(s, 1, Len(s) - 1)) * 10 + DigitVal(CharAt(s, Len(s)))

RECURSIVE IntToStr(_)
IntToStr(n) == IF n < 10 THEN CharAt(DigitChars, n + 1)
               ELSE IntToStr(n \div 10) \o CharAt(DigitChars, (n % 10) + 1)

\* float(txt)
ToFloat(txt) ==
    LET p == FirstPosOf(txt, ".")
    IN  IF p = 0 THEN [n |-> StrToInt(txt), d |-> 0]
        ELSE [n |-> StrToInt(SubSeq(txt, 1, p - 1) \o SubSeq(txt, p + 1, Len(txt))), d |-> Len(txt) - p]

\* a / b rounded to the nearest integer, ties to even
RoundDiv(a, b) ==
    LET q == a \div b
        r == a % b
    IN  IF 2 * r > b \/ (2 * r = b /\ q % 2 = 1) THEN q + 1 ELSE q

\* n zero-padded on the left to w digits
RECURSIVE ZeroPad(_, _)
ZeroPad(txt, w) == IF Len(txt) >= w THEN txt ELSE ZeroPad("0" \o txt, w)

\* str(x) of the float x = n / 10^d: no trailing zeros, at least one decimal
RECURSIVE FloatStr(_, _)
FloatStr(n, d) ==
    IF d = 0 THEN FloatStr(n * 10, 1)
    ELSE IF d > 1 /\ n % 10 = 0 THEN FloatStr(n \div 10, d - 1)
    ELSE IntToStr(n \div Pow10(d)) \o "." \o ZeroPad(IntToStr(n % Pow10(d)), d)

\* round(x * 25.4, 1), round(x * 304.8, 1) in tenths; round(x * 0.453592, 2) in hundredths
InchesToMm(x) == RoundDiv(x.n * 254, Pow10(x.d))
FeetToMm(x) == RoundDiv(x.n * 3048, Pow10(x.d))
\* the product cut to hundredths instead of rounded
PoundsToKgCut(x) == (x.n * 453592) \div Pow10(x.d + 4)
PoundsToKg(x) == RoundDiv(x.n * 453592, Pow10(x.d + 4))

(***************************************************************************)
(* convert_measurements                                                    *)
(***************************************************************************)
inch_patterns == << Number(1) \o <<Spaces0, Alt(<<"inches", "inche", "in", "\"">>)>>,
                   Number(1) \o <<Spaces0, Alt(<<"inch", "inches">>)>> >>

foot_patterns == << Number(1) \o <<Spaces0, Alt(<<"feet", "foot", "ft", "'">>)>> >>

weight_patterns == << Number(1) \o <<Spaces0, Alt(<<"lbs", "lb", "pounds", "pound", "pound">>)>> >>

\* new_text for one match of a unit family
NewText(num, unit) ==
    CASE unit = "inch" -> FloatStr(InchesToMm(ToFloat(num)), 1) \o "mm"
      [] unit = "foot" -> FloatStr(FeetToMm(ToFloat(num)), 1) \o "mm"
      [] unit = "pound" -> FloatStr(PoundsToKg(ToFloat(num)), 2) \o "kg"

\* a loop that handles the first match only
ReplaceMatchesFirstOnly(scanned, ms, k, converted_text, unit) ==
    IF k > Len(ms) THEN converted_text
    ELSE ReplaceFirst(converted_text, Group0(scanned, ms[k]), NewText(Group(scanned, ms[k], 1), unit))

\* a loop that skips a match whose text an earlier match already had
RECURSIVE ReplaceMatchesSkipRepeats(_, _, _, _, _)
ReplaceMatchesSkipRepeats(scanned, ms, k, converted_text, unit) ==
    IF k > Len(ms) THEN converted_text
    ELSE LET replaced == IF \E j \in 1..(k - 1) : Group0(scanned, ms[j]) = Group0(scanned, ms[k])
                         THEN converted_text
                         ELSE ReplaceFirst(converted_text, Group0(scanned, ms[k]),
                                           NewText(Group(scanned, ms[k], 1), unit))
         IN  Bound(replaced, ReplaceMatchesSkipRepeats(scanned, ms, k + 1, replaced, unit))

\* for match in matches: converted_text = converted_text.replace(old_text, new_text, 1)
RECURSIVE ReplaceMatches(_, _, _, _, _)
ReplaceMatches(scanned, ms, k, converted_text, unit) ==
    IF k > Len(ms) THEN converted_text
    ELSE LET replaced == ReplaceFirst(converted_text, Group0(scanned, ms[k]),
                                      NewText(Group(scanned, ms[k], 1), unit))
         IN  Bound(replaced, ReplaceMatches(scanned, ms, k + 1, replaced, unit))

\* for pattern in patterns: matches = re.finditer(pattern, converted_text, re.IGNORECASE) ...
RECURSIVE ConvertFamily(_, _, _, _)
ConvertFamily(patterns, k, converted_text, unit) ==
    IF k > Len(patterns) THEN converted_text
    ELSE LET replaced == ReplaceMatches(converted_text, FindIter(patterns[k], converted_text, TRUE), 1,
                                        converted_text, unit)
         IN  Bound(replaced, ConvertFamily(patterns, k + 1, replaced, unit))

\* the weight conversions, after the inch and foot conversions
ConvertWeight(converted_text) == Bound(converted_text, ConvertFamily(weight_patterns, 1, converted_text, "pound"))

\* the foot conversions, after the inch conversions
ConvertFeet(converted_text) == Bound(converted_text, ConvertFamily(foot_patterns, 1, converted_text, "foot"))

convert_measurements(text) ==
    IF text = "" THEN text
    ELSE ConvertWeight(ConvertFeet(ConvertFamily(inch_patterns, 1, text, "inch")))

(***************************************************************************)
(* parse_dimensions                                                        *)
(***************************************************************************)
InchUnit == Alt(<<"inches", "inche", "in", "\"">>)
MixedUnit == Alt(<<"mm", "inches", "inche", "in", "\"">>)

\* (\d+\.?\d*)\s*U.*?x.*?(\d+\.?\d*)\s*U.*?x.*?(\d+\.?\d*)\s*U
ThreeDims(unit) ==
    Number(1) \o <<Spaces0, unit, LazyAny, Lit("x"), LazyAny>> \o
    Number(2) \o <<Spaces0, unit, LazyAny, Lit("x"), LazyAny>> \o
    Number(3) \o <<Spaces0, unit>>

dimension_patterns == <<ThreeDims(Lit("mm")), ThreeDims(InchUnit), ThreeDims(MixedUnit)>>

parse_weight_patterns == << Number(1) \o <<Spaces0, Lit("kg")>>,
                           Number(1) \o <<Spaces0, Alt(<<"lbs", "lb", "pounds", "pound">>)>> >>

\* index of the first pattern that re.search finds in text, 0 if none
FirstPattern(patterns, text) ==
    IF \E k \in 1..Len(patterns) : Search(patterns[k], text, TRUE).ok
    THEN CHOOSE k \in 1..Len(patterns) :
            Search(patterns[k], text, TRUE).ok /\ \A j \in 1..(k - 1) : ~Search(patterns[j], text, TRUE).ok
    ELSE 0

\* str(float(x)), or str(round(float(x) * 25.4, 1)) after a match in inches
DimStr(x, inches) ==
    IF inches THEN FloatStr(InchesToMm(x), 1) ELSE FloatStr(x.n, x.d)

\* the matched text holds '"' or 'inch'
InInches(matched) == Contains(matched, "\"") \/ Contains(Lower(matched), "inch")

\* length, width, height of the match dm of a dimension pattern
DimsOfMatch(text, dm, inches) ==
    [length |-> DimStr(ToFloat(Group(text, dm, 1)), inches),
     width  |-> DimStr(ToFloat(Group(text, dm, 2)), inches),
     height |-> DimStr(ToFloat(Group(text, dm, 3)), inches)]

DimsOfPattern(text, dm) == DimsOfMatch(text, dm, InInches(Group0(text, dm)))

\* for pattern in dimension_patterns: ... break
DimsOf(text, dk) ==
    IF dk = 0 THEN [length |-> "", width |-> "", height |-> ""]
    ELSE DimsOfPattern(text, Search(dimension_patterns[dk], text, TRUE))

\* str(round(weight * 0.453592, 2)) for a match in pounds, str(weight) otherwise
WeightStr(matched, w) ==
    IF Contains(matched, "lb") \/ Contains(matched, "pound") THEN FloatStr(PoundsToKg(w), 2)
    ELSE FloatStr(w.n, w.d)

WeightOfMatch(text, wm) == WeightStr(Lower(Group0(text, wm)), ToFloat(Group(text, wm, 1)))

\* for pattern in weight_patterns: ... break
WeightOf(text, wk) ==
    IF wk = 0 THEN "" ELSE WeightOfMatch(text, Search(parse_weight_patterns[wk], text, TRUE))

EmptyDims == [length |-> "", width |-> "", height |-> "", weight |-> ""]

\* the dimensions are searched in the text as given, the weight in the converted text
ParsedDims(dimensions_text, converted_text) ==
    Bound(converted_text,
          DimsOf(dimensions_text, FirstPattern(dimension_patterns, dimensions_text)) @@
          [weight |-> WeightOf(converted_text, FirstPattern(parse_weight_patterns, converted_text))])

parse_dimensions(dimensions_text) ==
    IF dimensions_text = "" THEN EmptyDims
    ELSE ParsedDims(dimensions_text, convert_measurements(dimensions_text))

(***************************************************************************)
(* clean_column_name                                                       *)
(***************************************************************************)
None == "None"   \* Python's None; no text the source computes here has an upper-case letter

Truthy(x) == x # None /\ x # ""

\* s.strip()
RECURSIVE LStrip(_)
LStrip(s) == IF s # "" /\ InChars(CharAt(s, 1), WhitespaceChars) THEN LStrip(SubSeq(s, 2, Len(s))) ELSE s

RECURSIVE RStrip(_)
RStrip(s) == IF s # "" /\ InChars(CharAt(s, Len(s)), WhitespaceChars) THEN RStrip(SubSeq(s, 1, Len(s) - 1)) ELSE s

Strip(s) == RStrip(LStrip(s))

NotWordNorSpace == <<Rep(WordChars \o WhitespaceChars, TRUE, 1, 1, TRUE)>>   \* [^\w\s]

replacements == [weight_dimensions |-> "dimensions_weight",
                 os_compatibility |-> "operating_systems",
                 card_sizes_accepted |-> "card_sizes",
                 card_thickness_accepted |-> "card_thickness",
                 printer_color_capability |-> "color_capability",
                 print_resolution_dpi |-> "print_resolution",
                 printing_speeds_seccard |-> "print_speed_seconds",
                 printing_capability |-> "print_sides",
                 input_hopper_capacity |-> "input_capacity",
                 output_hopper_capacity |-> "output_capacity"]

\* clean.replace('_options', '').replace('_capability', '').replace('_accepted', '')
StripNoise(clean) == ReplaceAll(ReplaceAll(ReplaceAll(clean, "_options", ""), "_capability", ""), "_accepted", "")

\* replacements.get(clean, clean)
Synonym(clean) == IF clean \in DOMAIN replacements THEN replacements[clean] ELSE clean

\* clean = re.sub(r'\s+', '_', clean.strip())
Underscored(clean) == Bound(clean, Sub(<<Spaces1>>, "_", Strip(clean)))

\* the synonym of the key without its noise suffixes
Canonical(clean) == Bound(clean, Synonym(StripNoise(clean)))

\* a slip clean_column_name could have: the name is not lower-cased
clean_column_name_keepcase(name) ==
    IF name = "" THEN None
    ELSE Canonical(Underscored(Sub(NotWordNorSpace, "", name)))

\* a slip clean_column_name could have: the synonym table is looked up first
clean_column_name_synonymfirst(name) ==
    IF name = "" THEN None
    ELSE StripNoise(Synonym(Underscored(Sub(NotWordNorSpace, "", Lower(name)))))

clean_column_name(name) ==
    IF name = "" THEN None
    ELSE Canonical(Underscored(Sub(NotWordNorSpace, "", Lower(name))))

(***************************************************************************)
(* The parsed document.  BeautifulSoup is outside the source: a soup is    *)
(* the record of what the queries of the source return on it.  An element  *)
(* that a query may not find is <<>> (not found) or <<text>>.              *)
(***************************************************************************)
Found(e) == e # <<>>
TextOf(e) == e[1]

NotGt == Rep(">", TRUE, 0, -1, TRUE)                    \* [^>]*
AnyTag == <<Lit("<"), NotGt, Lit(">")>>

\* BeautifulSoup(fragment).get_text(): the fragment without its tags
get_text(html) == Sub(AnyTag, "", html)

\* re.sub(p, repl, s, count=1)
SubOnce(p, repl, s) ==
    LET m == SearchIn(p, s)
    IN  IF ~m.ok THEN s ELSE SubSeq(s, 1, m.start - 1) \o repl \o SubSeq(s, m.pos, Len(s))

\* len(re.findall(p, s))
CountMatches(p, s) == Len(FindAllFrom(p, s, 1))

\* re.sub(r'\s+', ' ', s).strip()
CollapseSpaces(s) == Strip(Sub(<<Spaces1>>, " ", s))

(***************************************************************************)
(* generate_product_slug                                                   *)
(***************************************************************************)
generate_product_slug(model, brand) ==
    StripChar(Sub(<<Rep("-" \o WhitespaceChars, FALSE, 1, -1, TRUE)>>, "-",
                  Sub(<<Rep(WordChars \o WhitespaceChars \o "-", TRUE, 1, 1, TRUE)>>, "",
                      Lower(brand \o " " \o model))), "-")

(***************************************************************************)
(* extract_product_description, extract_product_highlights                 *)
(***************************************************************************)
DivWith(attr) == <<Lit("<div"), NotGt, Lit(attr), NotGt, Lit(">")>>
OpenDiv == <<Lit("<div"), NotGt, Lit(">")>>
CloseDiv == <<Lit("</div>")>>
LastCloseDiv == <<Lit("</div>"), NotAhead(<<GreedyAny, Lit("</div>")>>)>>   \* </div>(?!.*</div>)

StripWrappers(html) ==
    Sub(DivWith("class=\"value\""), "",
      Sub(DivWith("data-decoded=\"true\""), "",
        Sub(DivWith("data-element=\"main\""), "",
          Sub(DivWith("data-appearance=\"default\""), "",
            Sub(DivWith("data-content-type=\"html\""), "", html)))))

\* a loop that runs once whatever the excess
TrimClosersOnce(html, n) == IF n <= 0 THEN html ELSE SubOnce(LastCloseDiv, "", html)

\* for _ in range(excess_closes): re.sub(r'</div>(?!.*</div>)', '', html, count=1)
RECURSIVE TrimClosers(_, _)
TrimClosers(html, n) == IF n <= 0 THEN html ELSE TrimClosers(SubOnce(LastCloseDiv, "", html), n - 1)

excess_closes(html) == CountMatches(CloseDiv, html) - CountMatches(OpenDiv, html)

\* the structural path: description container, its value container, its html container
description_html(soup) ==
    IF ~Found(soup.desc_div) THEN ""
    ELSE IF ~Found(soup.desc_value_div) THEN TextOf(soup.desc_div)
    ELSE IF ~Found(soup.desc_inner_div) THEN TextOf(soup.desc_value_div)
    ELSE TextOf(soup.desc_inner_div)

extract_product_description(soup) ==
    IF description_html(soup) = "" THEN ""
    ELSE CollapseSpaces(TrimClosers(StripWrappers(description_html(soup)),
                                    excess_closes(StripWrappers(description_html(soup)))))

highlights_html(soup) ==
    IF Found(soup.highlights_div) /\ Found(soup.highlights_value_div)
    THEN TextOf(soup.highlights_value_div) ELSE ""

extract_product_highlights(soup) ==
    IF highlights_html(soup) = "" THEN ""
    ELSE CollapseSpaces(Sub(DivWith("class=\"value\""), "", highlights_html(soup)))

(***************************************************************************)
(* extract_specifications_table                                            *)
(***************************************************************************)
\* the first table found among the three locators, <<>> if none
spec_table(soup) ==
    IF Found(soup.table_by_id) THEN soup.table_by_id
    ELSE IF Found(soup.table_additional) THEN soup.table_additional
    ELSE soup.table_data

\* the row's cleaned key, None when it has no header cell
RowKey(row) == IF Found(row.header) THEN clean_column_name(Strip(TextOf(row.header))) ELSE None

\* the row's value, '' when it has no data cell
RowValue(row) == IF Found(row.data) THEN Strip(TextOf(row.data)) ELSE ""

\* a slip the insertion could have: a key that is already there keeps its value
WithSpecKeepFirst(clean_key, value, specs) ==
    IF Truthy(clean_key) /\ value # "" THEN specs @@ (clean_key :> convert_measurements(value)) ELSE specs

\* if header and data: ... if clean_key and value: specs[clean_key] = convert_measurements(value)
WithSpec(clean_key, value, specs) ==
    IF Truthy(clean_key) /\ value # "" THEN (clean_key :> convert_measurements(value)) @@ specs ELSE specs

SpecsWithRow(row, specs) ==
    IF Found(row.header) /\ Found(row.data) THEN WithSpec(RowKey(row), RowValue(row), specs) ELSE specs

\* specs after the rows a..b of the table (the rows are taken in order; the range is
\* halved to keep the evaluation shallow)
RECURSIVE SpecsFromRows(_, _, _, _)
SpecsFromRows(rows, a, b, specs) ==
    IF a > b THEN specs
    ELSE IF a = b THEN SpecsWithRow(rows[a], specs)
    ELSE LET first == SpecsFromRows(rows, a, (a + b) \div 2, specs)
         IN  Bound(first, SpecsFromRows(rows, (a + b) \div 2 + 1, b, first))

NoSpecs == [k \in {} |-> ""]

extract_specifications_table(soup) ==
    IF Found(spec_table(soup)) THEN SpecsFromRows(spec_table(soup)[1], 1, Len(spec_table(soup)[1]), NoSpecs) ELSE NoSpecs

\* dict.get(key, '')
Get(d, key) == IF key \in DOMAIN d THEN d[key] ELSE ""

\* dict.update: the entries of new replace those of old
Update(old, new) == new @@ old

(***************************************************************************)
(* is_printer_url                                                          *)
(***************************************************************************)
excludes == <<"/blog/", "/support/", "/software/", "/supplies/", "/ribbons/",
              ".pdf", ".jpg", "/compare/", "/category/", "/view-all", "/manufacturer">>

includes == <<"/id-card-printers/", "/printer/", "card-printer">>

\* any(ex in url_lower for ex in excludes)
any_exclude(url_lower) == \E i \in 1..Len(excludes) : Contains(url_lower, excludes[i])

\* any(inc in url_lower for inc in includes)
has_printer_path(url_lower) == \E i \in 1..Len(includes) : Contains(url_lower, includes[i])

url_parts(u) == Split(StripChar(u, "/"), "/")

is_specific_product(u, url_lower) == Len(url_parts(u)) >= 3 /\ ~EndsWith(url_lower, "printers")

\* a slip the classifier could have: exclusion fragments matched on the raw text
is_printer_url_rawcase(u) ==
    IF u = "" THEN FALSE
    ELSE IF any_exclude(u) THEN FALSE
    ELSE has_printer_path(Lower(u)) /\ is_specific_product(u, Lower(u))

is_printer_url(u) ==
    IF u = "" THEN FALSE
    ELSE IF any_exclude(Lower(u)) THEN FALSE
    ELSE has_printer_path(Lower(u)) /\ is_specific_product(u, Lower(u))

(***************************************************************************)
(* urljoin(base_url, href) for the hrefs of the model: absolute,           *)
(* scheme-relative, rooted and relative paths without dot segments.        *)
(***************************************************************************)
base_url == "https://www.alphacard.com"

urljoin(base, href) ==
    IF href = "" THEN base
    ELSE IF StartsWith(Lower(href), "http://") \/ StartsWith(Lower(href), "https://") THEN href
    ELSE IF StartsWith(href, "//") THEN "https:" \o href
    ELSE IF StartsWith(href, "/") THEN base \o href
    ELSE base \o "/" \o href

(***************************************************************************)
(* extract_product_images                                                  *)
(***************************************************************************)
\* img.get('src') or img.get('data-src') or img.get('data-zoom-image')
ImgSrc(img) == IF img.src # "" THEN img.src ELSE IF img.data_src # "" THEN img.data_src ELSE img.zoom

\* a slip the collection could have: no test for an image already collected
RECURSIVE CollectImagesAll(_, _, _)
CollectImagesAll(imgs, k, images) ==
    IF k > Len(imgs) THEN images
    ELSE LET src0 == ImgSrc(imgs[k])
             src == IF StartsWith(src0, "/") THEN base_url \o src0 ELSE src0
         IN  IF src0 # "" /\ ~Contains(src0, "placeholder") /\ ~Contains(src0, "loading")
                /\ StartsWith(src, "http")
             THEN CollectImagesAll(imgs, k + 1, Append(images, src))
             ELSE CollectImagesAll(imgs, k + 1, images)

RECURSIVE CollectImages(_, _, _)
CollectImages(imgs, k, images) ==
    IF k > Len(imgs) THEN images
    ELSE LET src0 == ImgSrc(imgs[k])
             src == IF StartsWith(src0, "/") THEN base_url \o src0 ELSE src0
         IN  IF src0 # "" /\ ~Contains(src0, "placeholder") /\ ~Contains(src0, "loading")
                /\ (\A i \in 1..Len(images) : images[i] # src) /\ StartsWith(src, "http")
             THEN CollectImages(imgs, k + 1, Append(images, src))
             ELSE CollectImages(imgs, k + 1, images)

\* soup.imgs: the img elements selected by the six locators, in locator order
extract_product_images(soup) == CollectImages(soup.imgs, 1, <<>>)

(***************************************************************************)
(* extract_product_categories                                              *)
(***************************************************************************)
\* soup.breadcrumbs: the texts of the links selected by the four locators, in order
StripAll(texts) == [i \in 1..Len(texts) |-> Strip(texts[i])]

extract_product_categories(soup) ==
    SelectSeq(StripAll(soup.breadcrumbs),
              LAMBDA t : t # "" /\ Lower(t) \notin {"home", "shop", "products"})

(***************************************************************************)
(* extract_product_tags                                                    *)
(***************************************************************************)
tag_keywords == <<
    <<"dual-sided", {"dual-sided", "dual sided", "duplex"}>>,
    <<"single-sided", {"single-sided", "single sided", "simplex"}>>,
    <<"wifi", {"wifi", "wi-fi", "wireless"}>>,
    <<"ethernet", {"ethernet", "network", "lan"}>>,
    <<"usb", {"usb"}>>,
    <<"magnetic-stripe", {"magnetic stripe", "mag stripe", "magstripe"}>>,
    <<"smart-card", {"smart card", "smartcard", "chip"}>>,
    <<"rfid", {"rfid", "proximity"}>>,
    <<"contactless", {"contactless"}>>,
    <<"high-volume", {"high volume", "enterprise", "large batch"}>>,
    <<"compact", {"compact", "small", "desktop"}>>,
    <<"laminating", {"laminating", "lamination"}>>,
    <<"retransfer", {"retransfer", "re-transfer", "reverse transfer"}>>,
    <<"dye-sublimation", {"dye sublimation", "dye-sublimation"}>> >>

extract_product_tags(data) ==
    LET text_content == Lower(data["highlights"] \o " " \o data["description"])
        hit(i) == \E kw \in tag_keywords[i][2] : Contains(text_content, kw)
        found == SelectSeq([i \in 1..Len(tag_keywords) |-> i], hit)
    IN  (IF data["brand"] # "" THEN <<data["brand"]>> ELSE <<>>)
        \o [j \in 1..Len(found) |-> tag_keywords[found[j]][1]]

(***************************************************************************)
(* extract_stock_availability                                              *)
(***************************************************************************)
QtyPattern == <<Open(1), Digits1, Close(1), Spaces0, Alt(<<"in stock", "available">>)>>

DefaultStock == [stock_status |-> "instock", stock_quantity |-> "", backorders |-> "no"]

\* soup.stock_texts: element.get_text() of the elements selected by the five locators
RECURSIVE StockFrom(_, _, _)
StockFrom(texts, k, stock_info) ==
    IF k > Len(texts) THEN stock_info
    ELSE LET text == Lower(texts[k])
             s1 == IF Contains(text, "out of stock") \/ Contains(text, "unavailable")
                   THEN [stock_info EXCEPT !.stock_status = "outofstock"]
                   ELSE IF Contains(text, "in stock")
                   THEN [stock_info EXCEPT !.stock_status = "instock"]
                   ELSE IF Contains(text, "backorder") \/ Contains(text, "special order")
                   THEN [stock_info EXCEPT !.backorders = "yes"]
                   ELSE stock_info
             qty_match == Search(QtyPattern, text, FALSE)
         IN  StockFrom(texts, k + 1,
                       IF qty_match.ok THEN [s1 EXCEPT !.stock_quantity = Group(text, qty_match, 1)] ELSE s1)

extract_stock_availability(soup) == StockFrom(soup.stock_texts, 1, DefaultStock)

(***************************************************************************)
(* extract_seo_data                                                        *)
(***************************************************************************)
\* soup.schema_scripts: for each ld+json script, whether json.loads accepts it and
\* the text json.dumps gives back for it
extract_seo_data(soup) ==
    LET loaded == SelectSeq(soup.schema_scripts, LAMBDA sc : sc.ok)
        dumped == [i \in 1..Len(loaded) |-> loaded[i].json]
    IN  (IF Found(soup.meta_description) THEN [meta_description |-> TextOf(soup.meta_description)] ELSE NoSpecs)
        @@ (IF Found(soup.meta_keywords) THEN [meta_keywords |-> TextOf(soup.meta_keywords)] ELSE NoSpecs)
        @@ [schema_data |-> IF loaded # <<>> THEN "[" \o Join(dumped, ", ") \o "]" ELSE ""]

(***************************************************************************)
(* extract_related_products                                                *)
(***************************************************************************)
\* soup.related_links: the links selected by the five locators, in order
extract_related_products(soup) ==
    LET kept == SelectSeq(soup.related_links, LAMBDA l : l.href # "" /\ is_printer_url(l.href))
        all == [i \in 1..Len(kept) |-> [url |-> urljoin(base_url, kept[i].href), title |-> kept[i].title]]
    IN  SubSeq(all, 1, IF Len(all) < 10 THEN Len(all) ELSE 10)

(***************************************************************************)
(* extract_price_from_container                                            *)
(***************************************************************************)
PriceChars == DigitChars \o ","
\* \$?([\d,]+\.?\d*)
PricePattern == <<Rep("$", FALSE, 0, 1, TRUE), Open(1), Rep(PriceChars, FALSE, 1, -1, TRUE), OptDot, Digits0, Close(1)>>
\* \$[\d,]+\.?\d*
DollarPattern == <<Lit("$"), Rep(PriceChars, FALSE, 1, -1, TRUE), OptDot, Digits0>>
PlainNumber == <<Digits1, OptDot, Digits0>>

\* soup.price_elements: select_one of each of the eight locators, in order
RECURSIVE PriceFromSelectors(_, _)
PriceFromSelectors(elements, k) ==
    IF k > Len(elements) THEN ""
    ELSE LET price_text == IF Found(elements[k]) THEN Strip(TextOf(elements[k])) ELSE ""
             price_match == Search(PricePattern, price_text, FALSE)
         IN  IF Found(elements[k]) /\ price_match.ok
             THEN ReplaceAll(Group(price_text, price_match, 1), ",", "")
             ELSE PriceFromSelectors(elements, k + 1)

\* float(price_amount) succeeds on the plain decimal numbers of the model's pages
IsPlainNumber(txt) == LET m == MatchFrom(PlainNumber, txt, 1) IN m.ok /\ m.pos = Len(txt) + 1

extract_price_from_container(soup) ==
    LET price == PriceFromSelectors(soup.price_elements, 1)
    IN  IF price # "" THEN price
        ELSE IF Found(soup.data_price_amount) /\ IsPlainNumber(TextOf(soup.data_price_amount))
        THEN FloatStr(ToFloat(TextOf(soup.data_price_amount)).n, ToFloat(TextOf(soup.data_price_amount)).d)
        ELSE ""

(***************************************************************************)
(* convert_usd_to_aud (conversion_rate=0.62)                               *)
(***************************************************************************)
\* round(usd_amount * 0.62, 2) in hundredths
UsdToAud(x) == RoundDiv(x.n * 62, Pow10(x.d))

\* the exception float(clean_price) raises, "" if it raises none
FloatError(txt) == IF IsPlainNumber(txt) THEN "" ELSE "ValueError"

\* an except clause that names TypeError only
CaughtTypeErrorOnly(exc) == exc = "TypeError"

\* except (ValueError, TypeError)
Caught(exc) == exc \in {"ValueError", "TypeError"}

\* the outcome of the call: the exception that leaves it ("" if none), the value returned
UsdOutcome(usd_price) ==
    LET clean_price == Strip(ReplaceAll(ReplaceAll(usd_price, "$", ""), ",", ""))
    IN  IF usd_price = "" \/ clean_price = "" THEN [raises |-> "", value |-> ""]
        ELSE IF FloatError(clean_price) # ""
        THEN [raises |-> IF Caught(FloatError(clean_price)) THEN "" ELSE FloatError(clean_price), value |-> ""]
        ELSE [raises |-> "", value |-> FloatStr(UsdToAud(ToFloat(clean_price)), 2)]

convert_usd_to_aud(usd_price) == UsdOutcome(usd_price).value

(***************************************************************************)
(* extract_printer_data: the record and the extractor steps in their       *)
(* fixed order.  Step k is the k-th extractor call inside the try block.   *)
(***************************************************************************)
DefaultData(u) ==
    [url |-> u, scraped_date |-> "now", brand |-> "", model |-> "", full_name |-> "",
     product_slug |-> "", description |-> "", short_description |-> "", highlights |-> "",
     price |-> "", regular_price |-> "", regular_price_aud |-> "", sale_price |-> "",
     sale_price_aud |-> "", stock_status |-> "instock", stock_quantity |-> "", backorders |-> "no",
     featured_image |-> "", gallery_images |-> "", categories |-> "", tags |-> "",
     weight |-> "", length |-> "", width |-> "", height |-> "",
     meta_description |-> "", meta_keywords |-> "", schema_data |-> "",
     related_products |-> "", cross_sells |-> "",
     product_type |-> "simple", visibility |-> "visible", tax_status |-> "taxable",
     tax_class |-> "", manage_stock |-> "yes", featured |-> "no"]

brands == << <<"alphacard", "AlphaCard">>, <<"magicard", "Magicard">>, <<"fargo", "Fargo">>,
            <<"zebra", "Zebra">>, <<"evolis", "Evolis">>, <<"datacard", "Entrust Datacard">>,
            <<"entrust", "Entrust Datacard">>, <<"idp", "IDP">>, <<"swiftcolor", "SwiftColor">>,
            <<"matica", "Matica">> >>

\* for key, brand in brands.items(): if key in model_lower: ...; break
BrandOf(model) ==
    IF \E i \in 1..Len(brands) : Contains(Lower(model), brands[i][1])
    THEN brands[CHOOSE i \in 1..Len(brands) :
                    Contains(Lower(model), brands[i][1])
                    /\ \A j \in 1..(i - 1) : ~Contains(Lower(model), brands[j][1])][2]
    ELSE ""

\* title, h1, model and brand
SetIdentity(soup, data) ==
    LET d1 == IF Found(soup.title) THEN [data EXCEPT !["full_name"] = Strip(TextOf(soup.title))] ELSE data
        d2 == IF Found(soup.h1) THEN [d1 EXCEPT !["model"] = Strip(TextOf(soup.h1))]
              ELSE IF Found(soup.title) THEN [d1 EXCEPT !["model"] = Strip(Split(TextOf(soup.title), "|")[1])]
              ELSE d1
    IN  IF BrandOf(d2["model"]) # "" THEN [d2 EXCEPT !["brand"] = BrandOf(d2["model"])] ELSE d2

SetSlug(soup, data) == [data EXCEPT !["product_slug"] = generate_product_slug(data["model"], data["brand"])]

SetDescription(soup, data) == [data EXCEPT !["description"] = extract_product_description(soup)]

SetHighlights(soup, data) == [data EXCEPT !["highlights"] = extract_product_highlights(soup)]

ShortLen == 200

\* text[:ShortLen]
Truncate(text) == SubSeq(text, 1, IF Len(text) < ShortLen THEN Len(text) ELSE ShortLen)

POpen == <<Lit("<p"), NotAhead(<<Rep(WordChars, FALSE, 1, 1, TRUE)>>), NotGt, Lit(">")>>

\* desc_soup.find('p'): <<>> or the text of the first paragraph
FirstParagraph(html) ==
    LET m == SearchFrom(POpen, html, 1)
        rest == SubSeq(html, m.pos, Len(html))
        e == FirstIndexOf(rest, "</p>")
    IN  IF ~m.ok THEN <<>>
        ELSE <<get_text(IF e = 0 THEN rest ELSE SubSeq(rest, 1, e - 1))>>

SetShortDescription(soup, data) ==
    IF data["highlights"] # ""
    THEN LET highlight_text == get_text(data["highlights"])
         IN  [data EXCEPT !["short_description"] =
                 IF Len(highlight_text) > ShortLen THEN Truncate(highlight_text) \o "..." ELSE highlight_text]
    ELSE IF data["description"] # "" /\ Found(FirstParagraph(data["description"]))
    THEN [data EXCEPT !["short_description"] = Truncate(TextOf(FirstParagraph(data["description"]))) \o "..."]
    ELSE data

\* specifications = self.extract_specifications_table(soup); data.update(specifications)
SetSpecifications(soup, data) == Update(data, extract_specifications_table(soup))

SetImages(soup, data) ==
    LET images == extract_product_images(soup)
    IN  IF images # <<>>
        THEN [data EXCEPT !["featured_image"] = images[1], !["gallery_images"] = Join(Tail(images), "|")]
        ELSE data

SetCategories(soup, data) == [data EXCEPT !["categories"] = Join(extract_product_categories(soup), "|")]

SetTags(soup, data) == [data EXCEPT !["tags"] = Join(extract_product_tags(data), "|")]

SetStock(soup, data) == Update(data, extract_stock_availability(soup))

\* dimensions_text = specifications.get('dimensions_weight', '') or
\*                   specifications.get('weight', '') or specifications.get('dimensions', '')
DimensionsText(specifications) ==
    IF Get(specifications, "dimensions_weight") # "" THEN Get(specifications, "dimensions_weight")
    ELSE IF Get(specifications, "weight") # "" THEN Get(specifications, "weight")
    ELSE Get(specifications, "dimensions")

ShippingFrom(data, parsed_dims) ==
    [data EXCEPT !["length"] = parsed_dims.length, !["width"] = parsed_dims.width,
                 !["height"] = parsed_dims.height, !["weight"] = parsed_dims.weight]

ShippingOf(data, dimensions_text) ==
    IF dimensions_text # "" THEN ShippingFrom(data, parse_dimensions(dimensions_text)) ELSE data

\* the shipping dimensions, parsed from the specification text
SetShipping(soup, data) == ShippingOf(data, DimensionsText(extract_specifications_table(soup)))

SetSeo(soup, data) == Update(data, extract_seo_data(soup))

SetRelated(soup, data) ==
    LET related == extract_related_products(soup)
    IN  [data EXCEPT !["related_products"] = Join([i \in 1..Len(related) |-> related[i].url], "|"),
                     !["cross_sells"] = ""]

SetPrice(soup, data) ==
    LET price == extract_price_from_container(soup)
        price_match == Search(DollarPattern, soup.page_text, FALSE)
        price_str == ReplaceAll(ReplaceAll(Group0(soup.page_text, price_match), "$", ""), ",", "")
    IN  IF price # "" THEN [data EXCEPT !["price"] = price, !["regular_price"] = price]
        ELSE IF price_match.ok THEN [data EXCEPT !["price"] = price_str, !["regular_price"] = price_str]
        ELSE data

StepNames == <<"identity", "slug", "description", "highlights", "short_description",
               "specifications", "images", "categories", "tags", "stock", "shipping",
               "seo", "related", "price">>

NSteps == Len(StepNames)

SpecStep == 6

ApplyStep(k, soup, data) ==
    CASE k = 1 -> SetIdentity(soup, data)
      [] k = 2 -> SetSlug(soup, data)
      [] k = 3 -> SetDescription(soup, data)
      [] k = 4 -> SetHighlights(soup, data)
      [] k = 5 -> SetShortDescription(soup, data)
      [] k = 6 -> SetSpecifications(soup, data)
      [] k = 7 -> SetImages(soup, data)
      [] k = 8 -> SetCategories(soup, data)
      [] k = 9 -> SetTags(soup, data)
      [] k = 10 -> SetStock(soup, data)
      [] k = 11 -> SetShipping(soup, data)
      [] k = 12 -> SetSeo(soup, data)
      [] k = 13 -> SetRelated(soup, data)
      [] k = 14 -> SetPrice(soup, data)

\* a slip the aggregator could have: the error is caught around the one extractor
\* and control goes on with the next one
AfterRaiseContinue(k) == k + 1

\* where control goes when step k raises: the except clause after the last step
AfterRaise(k) == NSteps + 1

\* the step that follows step k when step k raises (raise_at = k) or completes
NextStep(k, raise_at) == IF k = raise_at THEN AfterRaise(k) ELSE k + 1

\* step k of the try block completes when step raise_at raises: it is not the step
\* that raises, and control reaches it (no step raises, or it comes before the
\* raising step, or no earlier than the step control resumes at)
Runs(k, raise_at) == k # raise_at /\ (raise_at = 0 \/ k < raise_at \/ k >= AfterRaise(raise_at))

\* the record after the steps a..b of the try block, entered with data (the steps are
\* taken in order; the range is halved to keep the evaluation shallow)
RECURSIVE RunRange(_, _, _, _, _)
RunRange(soup, data, a, b, raise_at) ==
    IF a = b THEN IF Runs(a, raise_at) THEN ApplyStep(a, soup, data) ELSE data
    ELSE LET first == RunRange(soup, data, a, (a + b) \div 2, raise_at)
         IN  Bound(first, RunRange(soup, first, (a + b) \div 2 + 1, b, raise_at))

\* the record when control leaves the try block, entered at step k with data
RunSteps(soup, data, k, raise_at) == IF k > NSteps THEN data ELSE RunRange(soup, data, k, NSteps, raise_at)

\* a slip the aggregator could have: the record is returned whatever its model
ReturnValueAlways(data) == <<data>>

\* return data if data['model'] else None
ReturnValue(data) == IF data["model"] # "" THEN <<data>> ELSE <<>>

\* extract_printer_data(url): fetched is the value of get_page, <<>> or <<soup>>;
\* raise_at is the step that raises, 0 if none does
extract_printer_data(u, fetched, raise_at) ==
    IF ~Found(fetched) THEN <<>>
    ELSE ReturnValue(RunSteps(fetched[1], DefaultData(u), 1, raise_at))

\* what one call leaves behind: whether the page was fetched, the value returned and
\* the model of the record when control left the try block ('' without a page)
Outcome(fetched, ret, at_end, keys) ==
    [fetched |-> Found(fetched), ret |-> ret, model |-> Get(at_end, "model"), keys |-> keys]

\* the keys extract_specifications_table adds to all_spec_columns during the call
SpecKeysAdded(fetched, raise_at) ==
    IF Found(fetched) /\ (raise_at = 0 \/ raise_at > SpecStep)
    THEN DOMAIN extract_specifications_table(fetched[1]) ELSE {}

(***************************************************************************)
(* The product pages of the model                                          *)
(***************************************************************************)
Row(label, value) == [header |-> <<label>>, data |-> <<value>>]
Img(src) == [src |-> src, data_src |-> "", zoom |-> ""]
NoPriceElements == <<<<>>, <<>>, <<>>, <<>>, <<>>, <<>>, <<>>, <<>>>>

EmptySoup ==
    [title |-> <<>>, h1 |-> <<>>,
     desc_div |-> <<>>, desc_value_div |-> <<>>, desc_inner_div |-> <<>>,
     highlights_div |-> <<>>, highlights_value_div |-> <<>>,
     table_by_id |-> <<>>, table_additional |-> <<>>, table_data |-> <<>>,
     imgs |-> <<>>, breadcrumbs |-> <<>>, stock_texts |-> <<>>,
     meta_description |-> <<>>, meta_keywords |-> <<>>, schema_scripts |-> <<>>,
     related_links |-> <<>>, price_elements |-> NoPriceElements,
     data_price_amount |-> <<>>, page_text |-> ""]

\* a complete product page; one specification label is "Model"
PageFull ==
    [EmptySoup EXCEPT
        !.title = <<"Fargo DTC1250e ID Card Printer | AlphaCard">>,
        !.h1 = <<" Fargo DTC1250e ">>,
        !.desc_div = <<"<div class=\"value\"><div data-content-type=\"html\"><p>Compact  wireless printer.</p></div></div>">>,
        !.desc_value_div = <<"<div data-content-type=\"html\"><p>Compact  wireless printer.</p></div>">>,
        !.desc_inner_div = <<"<p>Compact  wireless printer.</p>">>,
        !.highlights_div = <<"<div class=\"value\"><ul><li>Duplex</li><li>USB</li></ul></div>">>,
        !.highlights_value_div = <<"<ul><li>Duplex</li><li>USB</li></ul>">>,
        !.table_by_id = << <<Row("Model", "DTC1250e"), Row("Weight", "5 lbs"),
                            Row("Dimensions", "18\" x 12\" x 4\""),
                            Row("OS Compatibility", "Windows"),
                            [header |-> <<"Warranty">>, data |-> <<>>],
                            Row("Ribbon Options", " ")>> >>,
        !.imgs = <<Img("/media/dtc1250e.png"), Img("https://cdn.alphacard.com/placeholder.png"),
                   [src |-> "", data_src |-> "https://cdn.alphacard.com/side.png", zoom |-> ""],
                   Img("/media/dtc1250e.png")>>,
        !.breadcrumbs = <<"Home", " ID Card Printers ", "Fargo">>,
        !.stock_texts = <<"In Stock", "12 available">>,
        !.meta_description = <<"Fargo DTC1250e printer">>,
        !.schema_scripts = <<[ok |-> TRUE, json |-> "{\"@type\": \"Product\"}"], [ok |-> FALSE, json |-> ""]>>,
        !.related_links = <<[href |-> "/id-card-printers/fargo/dtc4500e", title |-> "DTC4500e"],
                            [href |-> "/blog/post", title |-> "News"]>>,
        !.price_elements = <<<<>>, <<>>, <<" $1,499.00 ">>, <<>>, <<>>, <<>>, <<"$1,499.00">>, <<>>>>,
        !.page_text = "Fargo DTC1250e $1,499.00 In Stock"]

\* no heading: the title is the fallback of the model
PageTitleOnly ==
    [EmptySoup EXCEPT
        !.title = <<"Acme X100 | Printers">>,
        !.desc_div = <<"<div class=\"value\"><div data-element=\"main\"><p>Fast printing.</p></div></div>">>,
        !.desc_value_div = <<"<div data-element=\"main\"><p>Fast printing.</p></div>">>,
        !.table_additional = << <<Row("Weight", "5 lbs")>> >>,
        !.price_elements = <<<<"$499.00">>, <<>>, <<>>, <<>>, <<>>, <<>>, <<>>, <<>>>>,
        !.page_text = "Acme X100 $499.00"]

\* neither heading nor title, and no specification row labelled Model
PageNoName ==
    [EmptySoup EXCEPT
        !.table_data = << <<Row("Card Sizes Accepted", "CR80"), Row("Printing Capability", "Dual-sided")>> >>,
        !.data_price_amount = <<"250">>,
        !.page_text = "Printer 250"]

\* a heading of blanks only, and a title
PageBlankH1 ==
    [EmptySoup EXCEPT
        !.title = <<"Evolis Primacy | AlphaCard">>,
        !.h1 = <<"  ">>,
        !.stock_texts = <<"Out of stock">>,
        !.page_text = "Evolis Primacy"]

\* neither heading nor title, but a specification row labelled Model; labels that
\* clean to nothing, and a label with a run of whitespace
PageSpecModel ==
    [EmptySoup EXCEPT
        !.table_by_id = << <<Row("Model", "ZXP-7"), Row("Weight", "Heavy"), Row("(!)", "n/a"),
                            Row("_Accepted", "yes"), Row("Print \t Speed (sec/card)", "fast")>> >>,
        !.page_text = "ZXP-7 only $2,100 today"]

\* a heading and nothing else
PageMinimal ==
    [EmptySoup EXCEPT
        !.h1 = <<"Zebra ZC300">>,
        !.page_text = "Zebra ZC300 for $2,100"]

Pages == <<PageFull, PageTitleOnly, PageNoName, PageBlankH1, PageSpecModel, PageMinimal>>

(***************************************************************************)
(* Links given to the classifier: an optional scheme and host, up to       *)
(* MaxSegs path segments, an optional trailing slash; and the empty href.  *)
(***************************************************************************)
MaxSegs == 3

UrlPrefixes == {"", base_url}

UrlSegments == {"id-card-printers", "fargo-printers", "magicard-pronto", "Card-Printer-X1",
                "Blog", "view-all-id-printers", ""}

RECURSIVE PathsOfLen(_)
PathsOfLen(n) == IF n = 0 THEN {""}
                 ELSE {p \o "/" \o seg : p \in PathsOfLen(n - 1), seg \in UrlSegments}

UrlPaths == UNION {PathsOfLen(n) : n \in 0..MaxSegs}

UrlInputs == {pre \o p \o t : pre \in UrlPrefixes, p \in UrlPaths, t \in {"", "/"}}

NoData == [k \in {} |-> ""]

UrlInit ==
    /\ url \in UrlInputs /\ url_pc = "input" /\ verdict = FALSE
    /\ soup_id = 0 /\ agg_raise = 0 /\ step = 0 /\ agg_data = NoData /\ agg_pc = "idle" /\ agg_ret = <<>>
    /\ pc = "idle" /\ cat_idx = 0 /\ printer_urls = {} /\ todo = {} /\ calls = <<>>
    /\ rediscovered = FALSE
    /\ printers_data = <<>> /\ all_spec_columns = {} /\ exported = FALSE /\ exit_code = "none"
    /\ fragment = "" /\ fragment_pc = "idle" /\ repaired = ""
    /\ conv_text = "" /\ conv_pc = "idle" /\ converted = <<>>
    /\ col_name = "" /\ col_pc = "idle" /\ col_clean = <<>>
    /\ usd = "" /\ usd_pc = "idle" /\ aud = ""
    /\ doc = EmptySoup /\ doc_pc = "idle" /\ extracted = <<>> /\ doc_data = NoData
    /\ fetch_url = "" /\ retries = 0 /\ attempt = 0 /\ fetch_pc = "idle" /\ fetch_ret = ""
    /\ requests = <<>> /\ slept = <<>>

\* one call of is_printer_url(url)
Classify ==
    /\ url_pc = "input"
    /\ verdict' = is_printer_url(url)
    /\ url_pc' = "classified"
    /\ UNCHANGED <<url, aggVars, walkVars, all_spec_columns, fragVars, convVars, colVars, audVars, docVars, fetchVars>>

SpecUrl == UrlInit /\ [][Classify]_vars

(***************************************************************************)
(* One call of extract_printer_data, extractor by extractor                *)
(***************************************************************************)
ProductUrl == "https://www.alphacard.com/id-card-printers/fargo/dtc1250e"

AggInit ==
    /\ soup_id \in 0..Len(Pages)
    /\ agg_raise \in 0..NSteps
    /\ step = 0 /\ agg_data = NoData /\ agg_pc = "fetch" /\ agg_ret = <<>>
    /\ url = "" /\ url_pc = "idle" /\ verdict = FALSE
    /\ pc = "idle" /\ cat_idx = 0 /\ printer_urls = {} /\ todo = {} /\ calls = <<>>
    /\ rediscovered = FALSE
    /\ printers_data = <<>> /\ all_spec_columns = {} /\ exported = FALSE /\ exit_code = "none"
    /\ fragment = "" /\ fragment_pc = "idle" /\ repaired = ""
    /\ conv_text = "" /\ conv_pc = "idle" /\ converted = <<>>
    /\ col_name = "" /\ col_pc = "idle" /\ col_clean = <<>>
    /\ usd = "" /\ usd_pc = "idle" /\ aud = ""
    /\ doc = EmptySoup /\ doc_pc = "idle" /\ extracted = <<>> /\ doc_data = NoData
    /\ fetch_url = "" /\ retries = 0 /\ attempt = 0 /\ fetch_pc = "idle" /\ fetch_ret = ""
    /\ requests = <<>> /\ slept = <<>>

\* soup = self.get_page(url); if not soup: return None; data = {...}
AggFetch ==
    /\ agg_pc = "fetch"
    /\ IF soup_id = 0
       THEN agg_pc' = "done" /\ UNCHANGED <<agg_data, step>>
       ELSE agg_pc' = "try" /\ agg_data' = DefaultData(ProductUrl) /\ step' = 1
    /\ UNCHANGED <<soup_id, agg_raise, agg_ret, urlVars, fragVars, convVars, walkVars, all_spec_columns, colVars, audVars, docVars, fetchVars>>

\* the next extractor call of the try block completes
AggStep ==
    /\ agg_pc = "try" /\ step <= NSteps /\ step # agg_raise
    /\ agg_data' = ApplyStep(step, Pages[soup_id], agg_data)
    /\ all_spec_columns' = IF step = SpecStep
                           THEN all_spec_columns \cup DOMAIN extract_specifications_table(Pages[soup_id])
                           ELSE all_spec_columns
    /\ step' = NextStep(step, agg_raise)
    /\ UNCHANGED <<soup_id, agg_raise, agg_pc, agg_ret, urlVars, fragVars, convVars, walkVars, colVars, audVars, docVars, fetchVars>>

\* the next extractor call raises: except Exception as e: logger.error(...)
AggRaise ==
    /\ agg_pc = "try" /\ step <= NSteps /\ step = agg_raise
    /\ step' = NextStep(step, agg_raise)
    /\ UNCHANGED <<soup_id, agg_raise, agg_data, agg_pc, agg_ret, urlVars, fragVars, convVars, walkVars, all_spec_columns, colVars, audVars, docVars, fetchVars>>

\* return data if data['model'] else None
AggReturn ==
    /\ agg_pc = "try" /\ step > NSteps
    /\ agg_ret' = ReturnValue(agg_data)
    /\ agg_pc' = "done"
    /\ UNCHANGED <<soup_id, agg_raise, step, agg_data, urlVars, fragVars, convVars, walkVars, all_spec_columns, colVars, audVars, docVars, fetchVars>>

AggNext == AggFetch \/ AggStep \/ AggRaise \/ AggReturn

SpecAgg == AggInit /\ [][AggNext]_vars

(***************************************************************************)
(* main, scrape_all_printers, find_printer_urls, save_results              *)
(***************************************************************************)
categories == <<"/id-card-printers/view-all-id-printers",
                "/id-card-printers",
                "/id-card-printers/id-card-printers-by-manufacturer/alphacard-printers",
                "/id-card-printers/id-card-printers-by-manufacturer/magicard-printers",
                "/id-card-printers/id-card-printers-by-manufacturer/fargo-printers",
                "/id-card-printers/id-card-printers-by-manufacturer/zebra-printers",
                "/id-card-printers/id-card-printers-by-manufacturer/evolis-printers">>

\* the hrefs a category page of the model may hold
Hrefs == {"/id-card-printers/fargo/dtc1250e",
          "https://www.alphacard.com/id-card-printers/fargo/dtc1250e",
          "/id-card-printers/zebra/zc300",
          "/id-card-printers/evolis/primacy",
          "/id-card-printers/fargo-printers",
          "/blog/id-card-printers/fargo/news",
          ""}

MaxUrls == 2

\* the extractor steps that may raise while the walker runs
WalkRaise == {0, 1, SpecStep, NSteps}

\* self.is_printer_url(href) and urljoin(self.base_url, href), tabulated for the hrefs
link_accepted == [h \in Hrefs |-> is_printer_url(h)] @@ <<>>

full_url == [h \in Hrefs |-> urljoin(base_url, h)] @@ <<>>

\* the URLs find_printer_urls can return
ProductUrls == {full_url[h] : h \in {x \in Hrefs : link_accepted[x]}}

\* the value of get_page for a product URL: None (0) or one of the pages
Fetched(i) == IF i = 0 THEN <<>> ELSE <<Pages[i]>>

\* extract_printer_data and the keys it adds to all_spec_columns, tabulated for
\* every product URL, page and raising step of the model
scraped ==
    [x \in ProductUrls \X (0..Len(Pages)) \X WalkRaise |->
        Outcome(Fetched(x[2]), extract_printer_data(x[1], Fetched(x[2]), x[3]),
                IF x[2] = 0 THEN NoData ELSE RunSteps(Pages[x[2]], DefaultData(x[1]), 1, x[3]),
                SpecKeysAdded(Fetched(x[2]), x[3]))] @@ <<>>

woo_fields == <<"product_type", "product_slug", "full_name", "short_description", "description",
                "regular_price", "regular_price_aud", "sale_price", "sale_price_aud",
                "stock_status", "stock_quantity", "manage_stock",
                "categories", "tags", "featured_image", "gallery_images",
                "weight", "length", "width", "height",
                "brand", "model", "highlights",
                "url", "scraped_date", "price", "backorders", "visibility", "featured",
                "meta_description", "meta_keywords", "related_products", "cross_sells",
                "tax_status", "tax_class", "schema_data">>

Range(f) == {f[i] : i \in DOMAIN f}

\* all_fields = woo_fields + sorted(list(self.all_spec_columns)), as a set
all_fields(cols) == Range(woo_fields) \cup cols

\* a slip save_results could have: only the fixed fields are filled in
PaddedFixedOnly(record, cols) == record @@ [f \in Range(woo_fields) |-> ""]

\* for field in all_fields: if field not in record: record[field] = ''
Padded(record, cols) == record @@ [f \in all_fields(cols) |-> ""]

WalkInit ==
    /\ pc = "find" /\ cat_idx = 1 /\ printer_urls = {} /\ todo = {} /\ calls = <<>>
    /\ rediscovered = FALSE
    /\ printers_data = <<>> /\ all_spec_columns = {} /\ exported = FALSE /\ exit_code = "none"
    /\ fragment = "" /\ fragment_pc = "idle" /\ repaired = ""
    /\ conv_text = "" /\ conv_pc = "idle" /\ converted = <<>>
    /\ col_name = "" /\ col_pc = "idle" /\ col_clean = <<>>
    /\ usd = "" /\ usd_pc = "idle" /\ aud = ""
    /\ doc = EmptySoup /\ doc_pc = "idle" /\ extracted = <<>> /\ doc_data = NoData
    /\ fetch_url = "" /\ retries = 0 /\ attempt = 0 /\ fetch_pc = "idle" /\ fetch_ret = ""
    /\ requests = <<>> /\ slept = <<>>
    /\ url = "" /\ url_pc = "idle" /\ verdict = FALSE
    /\ soup_id = 0 /\ agg_raise = 0 /\ step = 0 /\ agg_data = NoData /\ agg_pc = "idle" /\ agg_ret = <<>>

\* one iteration of: for category in categories
FindCategory ==
    /\ pc = "find" /\ cat_idx <= Len(categories)
    /\ \E fetched \in {<<>>} \cup {<<links>> : links \in SUBSET Hrefs} :
          LET accepted == IF Found(fetched) THEN {h \in fetched[1] : h # "" /\ link_accepted[h]} ELSE {}
              found == {full_url[href] : href \in accepted}
          IN  /\ Cardinality(printer_urls \cup found) <= MaxUrls
              /\ printer_urls' = printer_urls \cup found
              /\ rediscovered' = (rediscovered \/ found \cap printer_urls # {}
                                    \/ Cardinality(accepted) > Cardinality(found))
    /\ cat_idx' = cat_idx + 1
    /\ UNCHANGED <<pc, todo, calls, printers_data, all_spec_columns, exported, exit_code, urlVars, fragVars, convVars, aggVars, colVars, audVars, docVars, fetchVars>>

\* return list(printer_urls); if not printer_urls: return []
FindDone ==
    /\ pc = "find" /\ cat_idx > Len(categories)
    /\ todo' = printer_urls
    /\ pc' = IF printer_urls = {} THEN "main" ELSE "scrape"
    /\ UNCHANGED <<cat_idx, printer_urls, calls, rediscovered, printers_data, all_spec_columns, exported, exit_code, urlVars, fragVars, convVars, aggVars, colVars, audVars, docVars, fetchVars>>

\* a slip the walker could have: the URL stays in the work list
ScrapedAgain(u, out) ==
    /\ printers_data' = IF Found(out.ret) THEN Append(printers_data, out.ret[1]) ELSE printers_data
    /\ all_spec_columns' = all_spec_columns \cup out.keys
    /\ calls' = Append(calls, [url |-> u, fetched |-> out.fetched, model |-> out.model,
                                keys |-> out.keys, returned |-> Found(out.ret)])
    /\ todo' = todo

\* a slip the walker could have: the loop ends at the first page without a record
ScrapedOrStop(u, out) ==
    /\ printers_data' = IF Found(out.ret) THEN Append(printers_data, out.ret[1]) ELSE printers_data
    /\ all_spec_columns' = all_spec_columns \cup out.keys
    /\ calls' = Append(calls, [url |-> u, fetched |-> out.fetched, model |-> out.model,
                                keys |-> out.keys, returned |-> Found(out.ret)])
    /\ todo' = IF Found(out.ret) THEN todo \ {u} ELSE {}

\* printer_data = self.extract_printer_data(url); if printer_data: append
Scraped(u, out) ==
    /\ printers_data' = IF Found(out.ret) THEN Append(printers_data, out.ret[1]) ELSE printers_data
    /\ all_spec_columns' = all_spec_columns \cup out.keys
    /\ calls' = Append(calls, [url |-> u, fetched |-> out.fetched, model |-> out.model,
                                keys |-> out.keys, returned |-> Found(out.ret)])
    /\ todo' = todo \ {u}

\* one iteration of: for i, url in enumerate(printer_urls, 1)
Scrape ==
    /\ pc = "scrape" /\ todo # {}
    /\ \E u \in todo, i \in 0..Len(Pages), r \in WalkRaise : Scraped(u, scraped[<<u, i, r>>])
    /\ UNCHANGED <<pc, cat_idx, printer_urls, rediscovered, exported, exit_code, urlVars, fragVars, convVars, aggVars, colVars, audVars, docVars, fetchVars>>

\* return self.printers_data
ScrapeDone ==
    /\ pc = "scrape" /\ todo = {}
    /\ pc' = "main"
    /\ UNCHANGED <<cat_idx, printer_urls, todo, calls, rediscovered, printers_data, all_spec_columns, exported, exit_code, urlVars, fragVars, convVars, aggVars, colVars, audVars, docVars, fetchVars>>

\* a slip main could have: the results are saved and the run succeeds without a record
MainAlwaysSave ==
    /\ pc = "main"
    /\ pc' = "save" /\ UNCHANGED exit_code
    /\ UNCHANGED <<cat_idx, printer_urls, todo, calls, rediscovered, printers_data, all_spec_columns, exported, urlVars, fragVars, convVars, aggVars, colVars, audVars, docVars, fetchVars>>

\* if printers: scraper.save_results() else: exit(1)
Main ==
    /\ pc = "main"
    /\ IF printers_data # <<>>
       THEN pc' = "save" /\ UNCHANGED exit_code
       ELSE pc' = "done" /\ exit_code' = "fail"
    /\ UNCHANGED <<cat_idx, printer_urls, todo, calls, rediscovered, printers_data, all_spec_columns, exported, urlVars, fragVars, convVars, aggVars, colVars, audVars, docVars, fetchVars>>

\* save_results: the records are padded, then the files are written; an error
\* of the file system reaches the except clause of main
SaveResults ==
    /\ pc = "save"
    /\ printers_data' = [i \in 1..Len(printers_data) |-> Padded(printers_data[i], all_spec_columns)]
    /\ \E written \in BOOLEAN :
          /\ exported' = written
          /\ exit_code' = IF written THEN "ok" ELSE "fail"
    /\ pc' = "done"
    /\ UNCHANGED <<cat_idx, printer_urls, todo, calls, rediscovered, all_spec_columns, urlVars, fragVars, convVars, aggVars, colVars, audVars, docVars, fetchVars>>

Next == FindCategory \/ FindDone \/ Scrape \/ ScrapeDone \/ Main \/ SaveResults

Spec == WalkInit /\ [][Next]_vars

\* the walker is a sequential loop: every step that can be taken is taken
LiveSpec == Spec /\ WF_vars(Next)

(***************************************************************************)
(* Fragment Repair: extract_product_description and                        *)
(* extract_product_highlights on the markup of a container                 *)
(***************************************************************************)
MaxTokens == 3

\* the pieces the markup of a container is made of: a closer, two wrapper
\* openers, a balanced block with text, a line break
FragmentTokens == {"</div>", "<div class=\"value\">", "<div data-element=\"main\">", "<div>b</div>", "\n"}

RECURSIVE FragmentsOfLen(_)
FragmentsOfLen(n) == IF n = 0 THEN {""}
                     ELSE {f \o t : f \in FragmentsOfLen(n - 1), t \in FragmentTokens}

Fragments == UNION {FragmentsOfLen(n) : n \in 1..MaxTokens}

\* a page whose description container holds the markup (no inner value container)
DescriptionSoup(markup) == [EmptySoup EXCEPT !.desc_div = <<markup>>]

\* a page whose highlights value container holds the markup
HighlightsSoup(markup) ==
    [EmptySoup EXCEPT !.highlights_div = <<markup>>, !.highlights_value_div = <<markup>>]

RepairInit ==
    /\ fragment \in Fragments /\ fragment_pc = "input" /\ repaired = ""
    /\ conv_text = "" /\ conv_pc = "idle" /\ converted = <<>>
    /\ col_name = "" /\ col_pc = "idle" /\ col_clean = <<>>
    /\ usd = "" /\ usd_pc = "idle" /\ aud = ""
    /\ doc = EmptySoup /\ doc_pc = "idle" /\ extracted = <<>> /\ doc_data = NoData
    /\ fetch_url = "" /\ retries = 0 /\ attempt = 0 /\ fetch_pc = "idle" /\ fetch_ret = ""
    /\ requests = <<>> /\ slept = <<>>
    /\ url = "" /\ url_pc = "idle" /\ verdict = FALSE
    /\ soup_id = 0 /\ agg_raise = 0 /\ step = 0 /\ agg_data = NoData /\ agg_pc = "idle" /\ agg_ret = <<>>
    /\ pc = "idle" /\ cat_idx = 0 /\ printer_urls = {} /\ todo = {} /\ calls = <<>>
    /\ rediscovered = FALSE
    /\ printers_data = <<>> /\ all_spec_columns = {} /\ exported = FALSE /\ exit_code = "none"

\* one call of extract_product_description(soup)
RepairDescription ==
    /\ fragment_pc = "input"
    /\ repaired' = extract_product_description(DescriptionSoup(fragment))
    /\ fragment_pc' = "description"
    /\ UNCHANGED <<fragment, convVars, urlVars, aggVars, walkVars, all_spec_columns, colVars, audVars, docVars, fetchVars>>

\* one call of extract_product_highlights(soup)
RepairHighlights ==
    /\ fragment_pc = "input"
    /\ repaired' = extract_product_highlights(HighlightsSoup(fragment))
    /\ fragment_pc' = "highlights"
    /\ UNCHANGED <<fragment, convVars, urlVars, aggVars, walkVars, all_spec_columns, colVars, audVars, docVars, fetchVars>>

RepairNext == RepairDescription \/ RepairHighlights

SpecRepair == RepairInit /\ [][RepairNext]_vars

(***************************************************************************)
(* convert_measurements on specification values                            *)
(***************************************************************************)
ValueNumbers == {"12", "5", "2", "1.5", "10"}

ValueUnits == {" inches", " inch", " in", "\"", " ft", " feet", " lbs", " pounds", " lb",
               "mm", "kg", " interfaces", " ftp", " cards"}

Quantities == {n \o u : n \in ValueNumbers, u \in ValueUnits}

PairedQuantities == {n \o u : n \in {"5", "12"}, u \in {" in", " inch", " lbs", "mm", " ft"}}

Separators == {" x ", " and "}

ValueTexts == Quantities \cup {a \o sep \o b : a \in PairedQuantities, b \in PairedQuantities, sep \in Separators}

ConvInit ==
    /\ conv_text \in ValueTexts /\ conv_pc = "input" /\ converted = <<>>
    /\ fragment = "" /\ fragment_pc = "idle" /\ repaired = ""
    /\ col_name = "" /\ col_pc = "idle" /\ col_clean = <<>>
    /\ usd = "" /\ usd_pc = "idle" /\ aud = ""
    /\ doc = EmptySoup /\ doc_pc = "idle" /\ extracted = <<>> /\ doc_data = NoData
    /\ fetch_url = "" /\ retries = 0 /\ attempt = 0 /\ fetch_pc = "idle" /\ fetch_ret = ""
    /\ requests = <<>> /\ slept = <<>>
    /\ url = "" /\ url_pc = "idle" /\ verdict = FALSE
    /\ soup_id = 0 /\ agg_raise = 0 /\ step = 0 /\ agg_data = NoData /\ agg_pc = "idle" /\ agg_ret = <<>>
    /\ pc = "idle" /\ cat_idx = 0 /\ printer_urls = {} /\ todo = {} /\ calls = <<>>
    /\ rediscovered = FALSE
    /\ printers_data = <<>> /\ all_spec_columns = {} /\ exported = FALSE /\ exit_code = "none"

\* convert_measurements(conv_text)
Convert ==
    /\ conv_pc = "input"
    /\ converted' = <<convert_measurements(conv_text)>>
    /\ conv_pc' = "once"
    /\ UNCHANGED <<conv_text, fragVars, urlVars, aggVars, walkVars, all_spec_columns, colVars, audVars, docVars, fetchVars>>

\* convert_measurements applied to its own result
ConvertAgain ==
    /\ conv_pc = "once"
    /\ converted' = Append(converted, convert_measurements(converted[1]))
    /\ conv_pc' = "twice"
    /\ UNCHANGED <<conv_text, fragVars, urlVars, aggVars, walkVars, all_spec_columns, colVars, audVars, docVars, fetchVars>>

ConvNext == Convert \/ ConvertAgain

SpecConv == ConvInit /\ [][ConvNext]_vars

(***************************************************************************)
(* clean_column_name on the labels of specification rows                   *)
(***************************************************************************)
\* labels as the product pages have them, among them one for every key of the
\* synonym table
PageLabels == {"", "OS Compatibility", "Weight / Dimensions", "Card Sizes Accepted",
               "Card Thickness Accepted", "Printer Color Capability", "Print Resolution (DPI)",
               "Printing Speeds (sec/card)", "Printing Capability", "Input Hopper Capacity",
               "Output Hopper Capacity", "Ribbon Options", "(!)", "_Accepted", " Weight ",
               "Print \t Speed", "Model", "operating_systems", "dimensions_weight",
               "Card Options Available"}

LabelWords == {"OS", "Compatibility", "Printing", "Capability", "Card", "Accepted", "Options", "(!)"}

LabelSeparators == {" ", "_", " & "}

Labels == PageLabels \cup {a \o sep \o b : a \in LabelWords, b \in LabelWords, sep \in LabelSeparators}

CleanInit ==
    /\ col_name \in Labels /\ col_pc = "input" /\ col_clean = <<>>
    /\ usd = "" /\ usd_pc = "idle" /\ aud = ""
    /\ doc = EmptySoup /\ doc_pc = "idle" /\ extracted = <<>> /\ doc_data = NoData
    /\ fetch_url = "" /\ retries = 0 /\ attempt = 0 /\ fetch_pc = "idle" /\ fetch_ret = ""
    /\ requests = <<>> /\ slept = <<>>
    /\ fragment = "" /\ fragment_pc = "idle" /\ repaired = ""
    /\ conv_text = "" /\ conv_pc = "idle" /\ converted = <<>>
    /\ url = "" /\ url_pc = "idle" /\ verdict = FALSE
    /\ soup_id = 0 /\ agg_raise = 0 /\ step = 0 /\ agg_data = NoData /\ agg_pc = "idle" /\ agg_ret = <<>>
    /\ pc = "idle" /\ cat_idx = 0 /\ printer_urls = {} /\ todo = {} /\ calls = <<>>
    /\ rediscovered = FALSE
    /\ printers_data = <<>> /\ all_spec_columns = {} /\ exported = FALSE /\ exit_code = "none"

\* clean_column_name(name)
Clean ==
    /\ col_pc = "input"
    /\ col_clean' = <<clean_column_name(col_name)>>
    /\ col_pc' = "once"
    /\ UNCHANGED <<col_name, audVars, docVars, fetchVars, fragVars, convVars, urlVars, aggVars, walkVars,
                   all_spec_columns>>

\* clean_column_name applied to its own result (if not name: return None)
CleanAgain ==
    /\ col_pc = "once"
    /\ col_clean' = Append(col_clean, IF col_clean[1] = None THEN None ELSE clean_column_name(col_clean[1]))
    /\ col_pc' = "twice"
    /\ UNCHANGED <<col_name, audVars, docVars, fetchVars, fragVars, convVars, urlVars, aggVars, walkVars,
                   all_spec_columns>>

CleanNext == Clean \/ CleanAgain

SpecClean == CleanInit /\ [][CleanNext]_vars

(***************************************************************************)
(* convert_usd_to_aud on price texts                                       *)
(***************************************************************************)
PriceTexts == {sym \o whole \o frac \o rest :
                  sym \in {"", "$"}, whole \in {"0", "7", "250", "1,499", "12,345"},
                  frac \in {"", ".5", ".00", ".99"}, rest \in {"", " ", " USD"}}
              \cup {"", " ", "$", ",", "abc", "N/A", "Call for price", "12.5.3", "12 50", "$-", "1.2.", "$$"}

AudInit ==
    /\ usd \in PriceTexts /\ usd_pc = "input" /\ aud = ""
    /\ col_name = "" /\ col_pc = "idle" /\ col_clean = <<>>
    /\ doc = EmptySoup /\ doc_pc = "idle" /\ extracted = <<>> /\ doc_data = NoData
    /\ fetch_url = "" /\ retries = 0 /\ attempt = 0 /\ fetch_pc = "idle" /\ fetch_ret = ""
    /\ requests = <<>> /\ slept = <<>>
    /\ fragment = "" /\ fragment_pc = "idle" /\ repaired = ""
    /\ conv_text = "" /\ conv_pc = "idle" /\ converted = <<>>
    /\ url = "" /\ url_pc = "idle" /\ verdict = FALSE
    /\ soup_id = 0 /\ agg_raise = 0 /\ step = 0 /\ agg_data = NoData /\ agg_pc = "idle" /\ agg_ret = <<>>
    /\ pc = "idle" /\ cat_idx = 0 /\ printer_urls = {} /\ todo = {} /\ calls = <<>>
    /\ rediscovered = FALSE
    /\ printers_data = <<>> /\ all_spec_columns = {} /\ exported = FALSE /\ exit_code = "none"

\* one call of convert_usd_to_aud(usd_price): it returns, or an exception leaves it
ConvertPrice ==
    /\ usd_pc = "input"
    /\ aud' = UsdOutcome(usd).value
    /\ usd_pc' = IF UsdOutcome(usd).raises = "" THEN "returned" ELSE "raised"
    /\ UNCHANGED <<usd, colVars, docVars, fetchVars, fragVars, convVars, urlVars, aggVars, walkVars,
                   all_spec_columns>>

SpecAud == AudInit /\ [][ConvertPrice]_vars

(***************************************************************************)
(* The list extractors on documents: extract_product_categories,           *)
(* extract_product_images, extract_specifications_table                    *)
(***************************************************************************)
MaxItems == 2

\* the sequences of at most n elements of S
RECURSIVE SeqsUpTo(_, _)
SeqsUpTo(S, n) == IF n = 0 THEN {<<>>}
                  ELSE SeqsUpTo(S, n - 1) \cup {Append(q, x) : q \in SeqsUpTo(S, n - 1), x \in S}

\* texts of breadcrumb links; a link that several locators select comes once per locator
CrumbTexts == {"Home", " Fargo ", "ID Card Printers", ""}

ImgElements == {Img("https://cdn.alphacard.com/a.png"), Img("/media/a.png"), Img("/media/placeholder.png"),
                Img("https://www.alphacard.com/media/a.png"), Img("data:image/gif;base64,R0"),
                [src |-> "", data_src |-> "https://cdn.alphacard.com/b.png", zoom |-> "/media/z.png"],
                [src |-> "", data_src |-> "", zoom |-> "https://cdn.alphacard.com/loading.gif"],
                [src |-> "", data_src |-> "", zoom |-> ""]}

TableRows == {Row("Weight", "5 lbs"), Row(" weight ", "12 in"), Row("(!)", "n/a"), Row("Ribbon Options", " "),
              Row("OS Compatibility", "Windows"), Row("", "x"),
              [header |-> <<"Warranty">>, data |-> <<>>], [header |-> <<>>, data |-> <<"2 years">>]}

Documents ==
    {[EmptySoup EXCEPT !.breadcrumbs = q] : q \in SeqsUpTo(CrumbTexts, MaxItems)} \cup
    {[EmptySoup EXCEPT !.imgs = q] : q \in SeqsUpTo(ImgElements, MaxItems)} \cup
    {[EmptySoup EXCEPT !.table_additional = <<q>>] : q \in SeqsUpTo(TableRows, MaxItems)}

ExtractInit ==
    /\ doc \in Documents /\ doc_pc = "input" /\ extracted = <<>> /\ doc_data = NoData
    /\ col_name = "" /\ col_pc = "idle" /\ col_clean = <<>>
    /\ usd = "" /\ usd_pc = "idle" /\ aud = ""
    /\ fetch_url = "" /\ retries = 0 /\ attempt = 0 /\ fetch_pc = "idle" /\ fetch_ret = ""
    /\ requests = <<>> /\ slept = <<>>
    /\ fragment = "" /\ fragment_pc = "idle" /\ repaired = ""
    /\ conv_text = "" /\ conv_pc = "idle" /\ converted = <<>>
    /\ url = "" /\ url_pc = "idle" /\ verdict = FALSE
    /\ soup_id = 0 /\ agg_raise = 0 /\ step = 0 /\ agg_data = NoData /\ agg_pc = "idle" /\ agg_ret = <<>>
    /\ pc = "idle" /\ cat_idx = 0 /\ printer_urls = {} /\ todo = {} /\ calls = <<>>
    /\ rediscovered = FALSE
    /\ printers_data = <<>> /\ all_spec_columns = {} /\ exported = FALSE /\ exit_code = "none"

\* categories = self.extract_product_categories(soup); data['categories'] = '|'.join(categories)
ExtractCategories ==
    /\ doc_pc = "input"
    /\ extracted' = extract_product_categories(doc)
    /\ doc_data' = SetCategories(doc, DefaultData(ProductUrl))
    /\ doc_pc' = "categories"
    /\ UNCHANGED <<doc, colVars, audVars, fetchVars, fragVars, convVars, urlVars, aggVars, walkVars,
                   all_spec_columns>>

\* images = self.extract_product_images(soup); if images: data['featured_image'] = ...
ExtractImages ==
    /\ doc_pc = "input"
    /\ extracted' = extract_product_images(doc)
    /\ doc_data' = SetImages(doc, DefaultData(ProductUrl))
    /\ doc_pc' = "images"
    /\ UNCHANGED <<doc, colVars, audVars, fetchVars, fragVars, convVars, urlVars, aggVars, walkVars,
                   all_spec_columns>>

\* specifications = self.extract_specifications_table(soup); data.update(specifications)
ExtractSpecifications ==
    /\ doc_pc = "input"
    /\ extracted' = extract_specifications_table(doc)
    /\ doc_data' = SetSpecifications(doc, DefaultData(ProductUrl))
    /\ all_spec_columns' = all_spec_columns \cup DOMAIN extract_specifications_table(doc)
    /\ doc_pc' = "specifications"
    /\ UNCHANGED <<doc, colVars, audVars, fetchVars, fragVars, convVars, urlVars, aggVars, walkVars>>

ExtractNext == ExtractCategories \/ ExtractImages \/ ExtractSpecifications

SpecExtract == ExtractInit /\ [][ExtractNext]_vars

(***************************************************************************)
(* get_page: one URL, at most `retries` attempts                           *)
(***************************************************************************)
MaxRetries == 3

\* the pages the scraper fetches: a category page and a product page
FetchUrls == {base_url \o "/id-card-printers", ProductUrl}

\* what session.get, raise_for_status or the parser raise; all are Exceptions
RequestErrors == {"ConnectionError", "Timeout", "HTTPError"}

\* a slip the handler could have: it never takes the attempt for the last one
NeverLastAttempt(a, n) == FALSE

\* if attempt == retries - 1:
LastAttempt(a, n) == a = n - 1

FetchInit ==
    /\ fetch_url \in FetchUrls /\ retries \in 0..MaxRetries
    /\ attempt = 0 /\ fetch_pc = "loop" /\ fetch_ret = "" /\ requests = <<>> /\ slept = <<>>
    /\ col_name = "" /\ col_pc = "idle" /\ col_clean = <<>>
    /\ usd = "" /\ usd_pc = "idle" /\ aud = ""
    /\ doc = EmptySoup /\ doc_pc = "idle" /\ extracted = <<>> /\ doc_data = NoData
    /\ fragment = "" /\ fragment_pc = "idle" /\ repaired = ""
    /\ conv_text = "" /\ conv_pc = "idle" /\ converted = <<>>
    /\ url = "" /\ url_pc = "idle" /\ verdict = FALSE
    /\ soup_id = 0 /\ agg_raise = 0 /\ step = 0 /\ agg_data = NoData /\ agg_pc = "idle" /\ agg_ret = <<>>
    /\ pc = "idle" /\ cat_idx = 0 /\ printer_urls = {} /\ todo = {} /\ calls = <<>>
    /\ rediscovered = FALSE
    /\ printers_data = <<>> /\ all_spec_columns = {} /\ exported = FALSE /\ exit_code = "none"

\* for attempt in range(retries): try: time.sleep(2)
EnterAttempt ==
    /\ fetch_pc = "loop" /\ attempt < retries
    /\ slept' = Append(slept, 2)
    /\ fetch_pc' = "request"
    /\ UNCHANGED <<fetch_url, retries, attempt, fetch_ret, requests,
                   colVars, audVars, docVars, fragVars, convVars, urlVars, aggVars, walkVars, all_spec_columns>>

\* the loop is over without a return: return None
LoopExhausted ==
    /\ fetch_pc = "loop" /\ attempt >= retries
    /\ fetch_ret' = None
    /\ fetch_pc' = "done"
    /\ UNCHANGED <<fetch_url, retries, attempt, requests, slept,
                   colVars, audVars, docVars, fragVars, convVars, urlVars, aggVars, walkVars, all_spec_columns>>

\* response = self.session.get(url, timeout=30); response.raise_for_status();
\* return BeautifulSoup(response.content, 'html.parser')
RequestSucceeds ==
    /\ fetch_pc = "request"
    /\ requests' = Append(requests, "ok")
    /\ fetch_ret' = "soup"
    /\ fetch_pc' = "done"
    /\ UNCHANGED <<fetch_url, retries, attempt, slept,
                   colVars, audVars, docVars, fragVars, convVars, urlVars, aggVars, walkVars, all_spec_columns>>

\* except Exception as e: logger.warning(...)
RequestFails ==
    /\ fetch_pc = "request"
    /\ \E e \in RequestErrors : requests' = Append(requests, e)
    /\ fetch_pc' = "except"
    /\ UNCHANGED <<fetch_url, retries, attempt, fetch_ret, slept,
                   colVars, audVars, docVars, fragVars, convVars, urlVars, aggVars, walkVars, all_spec_columns>>

\* if attempt == retries - 1: logger.error(...); return None
GiveUp ==
    /\ fetch_pc = "except" /\ LastAttempt(attempt, retries)
    /\ fetch_ret' = None
    /\ fetch_pc' = "done"
    /\ UNCHANGED <<fetch_url, retries, attempt, requests, slept,
                   colVars, audVars, docVars, fragVars, convVars, urlVars, aggVars, walkVars, all_spec_columns>>

\* time.sleep(5 * (attempt + 1)), then the next attempt
Backoff ==
    /\ fetch_pc = "except" /\ ~LastAttempt(attempt, retries)
    /\ slept' = Append(slept, 5 * (attempt + 1))
    /\ attempt' = attempt + 1
    /\ fetch_pc' = "loop"
    /\ UNCHANGED <<fetch_url, retries, fetch_ret, requests,
                   colVars, audVars, docVars, fragVars, convVars, urlVars, aggVars, walkVars, all_spec_columns>>

FetchNext == EnterAttempt \/ LoopExhausted \/ RequestSucceeds \/ RequestFails \/ GiveUp \/ Backoff

SpecFetch == FetchInit /\ [][FetchNext]_vars

\* every step of get_page is a sleep or a request with timeout=30, so each one ends
LiveFetch == SpecFetch /\ WF_vars(FetchNext)

(***************************************************************************)
(* Properties of the URL classifier                                        *)
(***************************************************************************)
ExclusionFragments == {"/blog/", "/support/", "/software/", "/supplies/", "/ribbons/", ".pdf",
                       ".jpg", "/compare/", "/category/", "/view-all", "/manufacturer"}

InclusionFragments == {"/id-card-printers/", "/printer/", "card-printer"}

ContainsAny(text, fragments) == \E f \in fragments : Contains(text, f)

ContainsExclusion(u) == ContainsAny(Lower(u), ExclusionFragments)

ContainsInclusion(u) == ContainsAny(Lower(u), InclusionFragments)

\* the path of a link: what follows the scheme and host of an absolute URL
AfterScheme(u) == IF StartsWith(Lower(u), "https://") THEN SubSeq(u, 9, Len(u))
                  ELSE IF StartsWith(Lower(u), "http://") THEN SubSeq(u, 8, Len(u))
                  ELSE u

PathOf(u) == IF AfterScheme(u) = u THEN u
             ELSE IF FirstPosOf(AfterScheme(u), "/") = 0 THEN ""
             ELSE SubSeq(AfterScheme(u), FirstPosOf(AfterScheme(u), "/"), Len(AfterScheme(u)))

PathSegments(u) == SelectSeq(Split(PathOf(u), "/"), LAMBDA seg : seg # "")

EndsInPluralToken(u) ==
    PathSegments(u) # <<>> /\ EndsWith(Lower(PathSegments(u)[Len(PathSegments(u))]), "printers")

\* C4: a link that is empty or whose lower-cased text contains an exclusion fragment
\* is classified false, whatever else it contains.
C4_ExclusionWins ==
    (url_pc = "classified" /\ (url = "" \/ ContainsExclusion(url))) => verdict = FALSE

\* C4 witness: a classified link with an exclusion fragment, an inclusion fragment,
\* three segments and no plural ending.
C4_Witness ==
    /\ url_pc = "classified"
    /\ ContainsExclusion(url) /\ ContainsInclusion(url)
    /\ Len(PathSegments(url)) >= 3 /\ ~EndsInPluralToken(url)
    /\ verdict = FALSE

\* C5: a link without exclusion fragment is accepted only if it contains an inclusion
\* fragment, its path has at least three non-empty segments and the path does not end
\* in a plural token, for relative and absolute links, with or without trailing slash.
C5_AcceptedOnlyIfSpecificProduct ==
    (url_pc = "classified" /\ ~ContainsExclusion(url) /\ verdict = TRUE)
        => (ContainsInclusion(url) /\ Len(PathSegments(url)) >= 3 /\ ~EndsInPluralToken(url))

(***************************************************************************)
(* Properties of the record aggregator                                     *)
(***************************************************************************)
\* the fields of the record that an extractor has set: non-empty and changed from
\* the value the record starts with
SetByExtractor(data, f) == data[f] # "" /\ data[f] # Get(DefaultData(ProductUrl), f)

\* C2: once an extractor has set a field to a non-empty value, no later step of the
\* aggregation changes that field (first non-empty value wins).
C2_FirstNonEmptyWins ==
    [][agg_pc = "try" =>
          \A f \in DOMAIN agg_data : SetByExtractor(agg_data, f) => agg_data'[f] = agg_data[f]]_vars

\* the record the page gives when the steps 1..n complete and nothing raises
RecordAfter(soup, n) ==
    IF n = 0 THEN DefaultData(ProductUrl) ELSE RunRange(soup, DefaultData(ProductUrl), 1, n, 0)

\* the record the page gives when every step but the raising one completes
RECURSIVE RecordWithout(_, _, _, _)
RecordWithout(soup, data, k, raise_at) ==
    IF k > NSteps THEN data
    ELSE LET next == IF k = raise_at THEN data ELSE ApplyStep(k, soup, data)
         IN  Bound(next, RecordWithout(soup, next, k + 1, raise_at))

\* C3 as stated: when one extractor raises, only that extractor is lost: the record
\* returned is the one every other extractor, the later ones included, has filled in.
C3_LaterExtractorsStillRun ==
    (agg_pc = "done" /\ soup_id # 0 /\ agg_raise # 0)
        => agg_data = RecordWithout(Pages[soup_id], DefaultData(ProductUrl), 1, agg_raise)

\* C3 as amended: when one extractor raises, the error is caught, the fields set by
\* the earlier extractors are kept, the raising extractor and every later one leave
\* the record as it was, and the record is returned exactly when its model is non-empty.
C3_RaiseSkipsTheRest ==
    (agg_pc = "done" /\ soup_id # 0 /\ agg_raise # 0)
        => /\ agg_data = RecordAfter(Pages[soup_id], agg_raise - 1)
           /\ agg_ret = IF agg_data["model"] # "" THEN <<agg_data>> ELSE <<>>

\* C3 witness: the specification extractor raised on the complete page: the record is
\* returned with its description, and without specifications, image or price.
C3_Witness ==
    /\ agg_pc = "done" /\ soup_id = 1 /\ agg_raise = SpecStep
    /\ Found(agg_ret) /\ agg_ret[1]["description"] # ""
    /\ agg_ret[1]["price"] = "" /\ agg_ret[1]["featured_image"] = ""
    /\ RecordAfter(Pages[soup_id], NSteps)["price"] # ""

(***************************************************************************)
(* Properties of the catalog walker                                        *)
(***************************************************************************)
CallIndices == 1..Len(calls)

\* the calls of extract_printer_data that returned a record, in order
ReturnedCalls == SelectSeq(calls, LAMBDA c : c.returned)

\* C1: every record of printers_data has a non-empty model; a call returns a record
\* exactly when the page was fetched and the model is non-empty when extraction ends,
\* and each call that returns a record adds one record.
C1_RecordsHaveModel ==
    /\ \A i \in 1..Len(printers_data) : printers_data[i]["model"] # ""
    /\ \A j \in CallIndices : calls[j].returned <=> (calls[j].fetched /\ calls[j].model # "")
    /\ Len(printers_data) = Len(ReturnedCalls)

\* C1 witness: one page was fetched and discarded for its empty model, another gave
\* a record.
C1_Witness ==
    /\ pc = "done" /\ Len(printers_data) = 1
    /\ \E j \in CallIndices : calls[j].fetched /\ calls[j].model = "" /\ ~calls[j].returned
    /\ \E j \in CallIndices : calls[j].returned

\* the product URLs of the links is_printer_url accepts
AcceptedUrls == {urljoin(base_url, h) : h \in {x \in Hrefs : is_printer_url(x)}}

\* C6: no URL gets two calls of extract_printer_data, however often its link is met,
\* every URL called is the URL of an accepted link, and when the loop is over every
\* URL found has had its call.
C6_OneAttemptPerAcceptedUrl ==
    /\ \A i, j \in CallIndices : calls[i].url = calls[j].url => i = j
    /\ \A j \in CallIndices : calls[j].url \in printer_urls \cap AcceptedUrls
    /\ pc \in {"main", "save", "done"} => {calls[j].url : j \in CallIndices} = printer_urls

\* C6 witness: a link to a URL already found was met, and the run ended with one call
\* for each URL found.
C6_Witness ==
    /\ pc = "done" /\ rediscovered
    /\ printer_urls # {} /\ Len(calls) = Cardinality(printer_urls)

\* the walker has left its loops
Walked == pc \in {"main", "save", "done"}

\* C7: a page that is not fetched or gives no record ends the work on that URL only:
\* the run terminates, every URL found gets its call, and the list returned holds the
\* records of the calls that returned one, in order, and nothing else.
C7_FailureIsLocal ==
    /\ <>(pc = "done")
    /\ [](Walked => /\ {calls[j].url : j \in CallIndices} = printer_urls
                    /\ Len(printers_data) = Len(ReturnedCalls)
                    /\ \A k \in 1..Len(printers_data) : printers_data[k]["url"] = ReturnedCalls[k].url)

\* C7 witness: the first page was not fetched, the second gave a record, and the run
\* ended with that record alone.
C7_Witness ==
    /\ pc = "done" /\ Len(calls) = 2
    /\ ~calls[1].fetched /\ calls[2].returned
    /\ Len(printers_data) = 1 /\ printers_data[1]["url"] = calls[2].url

\* C8 as stated: the run fails only when the category pages give no candidate URL.
C8_FailureOnlyWithoutCandidates ==
    (pc = "done" /\ exit_code = "fail") => printer_urls = {}

\* C8 as amended: the run fails exactly when no record was collected (no candidate
\* URL was found, or no candidate page gave a record) or writing the export failed;
\* with a record collected and the export written it succeeds.
C8_FailureIffNoRecordOrNoExport ==
    pc = "done" => /\ exit_code \in {"ok", "fail"}
                   /\ exit_code = "fail" <=> (ReturnedCalls = <<>> \/ ~exported)
                   /\ printer_urls = {} => exit_code = "fail"

\* C8 witness: candidate URLs were found, none gave a record, and the run failed with
\* nothing exported.
C8_Witness ==
    /\ pc = "done" /\ exit_code = "fail" /\ ~exported
    /\ printer_urls # {} /\ Len(calls) = Cardinality(printer_urls) /\ ReturnedCalls = <<>>

(***************************************************************************)
(* Properties of the specification keys and of the export shape            *)
(***************************************************************************)
\* the specification tables of the pages, and the labels of their rows
PageTables == {spec_table(Pages[p])[1] : p \in {q \in 1..Len(Pages) : Found(spec_table(Pages[q]))}}

RowLabels == UNION {{Strip(TextOf(t[i].header)) : i \in {j \in 1..Len(t) : Found(t[j].header)}} : t \in PageTables}

\* the keys clean_column_name gives for the labels
CleanKeys == {clean_column_name(label) : label \in RowLabels \ {""}}

HasWhitespace(k) == \E i \in 1..Len(k) : InChars(CharAt(k, i), WhitespaceChars)

\* the keys among them that are non-empty, lower-case and without whitespace
WellFormedKeys == {k : k \in {x \in CleanKeys : x # "" /\ Lower(x) = x /\ ~HasWhitespace(x)}}

\* the fields every record starts with
DefaultFields == DOMAIN DefaultData(ProductUrl)

\* C9: all_spec_columns only grows; it holds the keys of every specification set a call
\* has returned and every specification key of every record; and each of its keys is
\* non-empty, lower-case, without whitespace and a value of clean_column_name.
C9_SpecColumnsGrowAndAreClean ==
    /\ [][all_spec_columns \subseteq all_spec_columns']_vars
    /\ [](/\ \A j \in CallIndices : calls[j].keys \subseteq all_spec_columns
          /\ \A i \in 1..Len(printers_data) : DOMAIN printers_data[i] \ DefaultFields \subseteq all_spec_columns
          /\ all_spec_columns \subseteq WellFormedKeys)

\* C9 witness: two pages were parsed and the union holds a key of each, one through the
\* synonym table and one with its suffix stripped.
C9_Witness ==
    /\ Len(calls) = 2
    /\ "operating_systems" \in calls[1].keys /\ "operating_systems" \notin calls[2].keys
    /\ "card_sizes" \in calls[2].keys /\ "card_sizes" \notin calls[1].keys
    /\ {"operating_systems", "card_sizes"} \subseteq all_spec_columns

\* C10: when save_results has filled the records in, every record has the fixed fields
\* and the keys of all_spec_columns as its fields and no others, and a specification
\* field its page did not give is ''.
C10_RecordsShareTheirFields ==
    (pc = "done" /\ printers_data # <<>>) =>
        \A i \in 1..Len(printers_data) :
            /\ DOMAIN printers_data[i] = Range(woo_fields) \cup all_spec_columns
            /\ \A f \in all_spec_columns \ (Range(woo_fields) \cup ReturnedCalls[i].keys) :
                  printers_data[i][f] = ""

\* C10 witness: two records were saved, and a specification key of the second page
\* alone is a field of the first record, with the value ''.
C10_Witness ==
    /\ pc = "done" /\ Len(printers_data) = 2
    /\ \E f \in all_spec_columns \ Range(woo_fields) :
          /\ f \notin ReturnedCalls[1].keys /\ f \in ReturnedCalls[2].keys
          /\ printers_data[1][f] = "" /\ printers_data[2][f] # ""

(***************************************************************************)
(* Properties of Fragment Repair                                           *)
(***************************************************************************)
\* len(re.findall(r'</div>', s)), len(re.findall(r'<div[^>]*>', s))
Closers(s) == CountMatches(CloseDiv, s)
Openers(s) == CountMatches(OpenDiv, s)

C12_HighlightsHaveNoExcessCloser ==
    fragment_pc = "highlights" => Closers(repaired) <= Openers(repaired)

\* the start of the last "</div>" of s, 0 if there is none
LastCloserAt(s) ==
    IF Contains(s, "</div>")
    THEN CHOOSE i \in 1..Len(s) : MatchesAt(s, i, "</div>") /\ \A j \in (i + 1)..Len(s) : ~MatchesAt(s, j, "</div>")
    ELSE 0

\* s without its last k closing div tags
RECURSIVE WithoutLastClosers(_, _)
WithoutLastClosers(s, k) ==
    IF k <= 0 \/ LastCloserAt(s) = 0 THEN s
    ELSE WithoutLastClosers(SubSeq(s, 1, LastCloserAt(s) - 1) \o SubSeq(s, LastCloserAt(s) + 6, Len(s)), k - 1)

\* C13: re-balancing a description with k excess closing div tags removes exactly
\* its last k closing div tags and nothing else, also when the markup spans
\* several lines.
C13_RemovesExactlyTheLastClosers ==
    fragment_pc = "description" =>
        repaired = CollapseSpaces(WithoutLastClosers(StripWrappers(fragment),
                                                     excess_closes(StripWrappers(fragment))))

(***************************************************************************)
(* Properties of convert_measurements                                      *)
(***************************************************************************)
\* round(n * 25.4, 1), round(n * 304.8, 1) and round(n * 0.453592, 2) as Python prints them
InchesAsMm == ("12" :> "304.8mm") @@ ("5" :> "127.0mm") @@ ("2" :> "50.8mm") @@
              ("1.5" :> "38.1mm") @@ ("10" :> "254.0mm")

FeetAsMm == ("12" :> "3657.6mm") @@ ("5" :> "1524.0mm") @@ ("2" :> "609.6mm") @@
            ("1.5" :> "457.2mm") @@ ("10" :> "3048.0mm")

PoundsAsKg == ("12" :> "5.44kg") @@ ("5" :> "2.27kg") @@ ("2" :> "0.91kg") @@
              ("1.5" :> "0.68kg") @@ ("10" :> "4.54kg")

InchWords == {" inches", " inch", " in", "\""}
PoundWords == {" lbs", " lb", " pounds"}
OtherWords == {"mm", "kg", " interfaces", " ftp", " cards"}

\* C14: inches are converted with 1 inch = 25.4 mm rounded to 1 decimal and pounds
\* with 1 lb = 0.453592 kg rounded to 2 decimals: the result for "12 inches"
\* contains "304.8mm" and the result for "5 lbs" contains "2.27kg".
C14_InchesAndPoundsConverted ==
    converted # <<>> =>
        \A n \in ValueNumbers :
            /\ \A u \in InchWords : conv_text = n \o u => Contains(converted[1], InchesAsMm[n])
            /\ \A u \in PoundWords : conv_text = n \o u => Contains(converted[1], PoundsAsKg[n])

\* C14 witness: "5 lbs" was converted, 2.26796 rounded up to 2.27
C14_Witness == conv_pc = "once" /\ conv_text = "5 lbs" /\ converted = <<"2.27kg">>

\* C15: text that is not an inch, foot or pound measurement is returned unchanged
\* (a number followed by a word that merely begins with "in" or "ft" included),
\* and a converted measurement leaves no fragment of its unit word ("12 inch"
\* leaves no stray "ch").
C15_OtherTextUntouched ==
    converted # <<>> =>
        \A n \in ValueNumbers :
            /\ \A u \in OtherWords : conv_text = n \o u => converted[1] = conv_text
            /\ conv_text = n \o " inch" => converted[1] = InchesAsMm[n]

MetricTexts == {n \o u : n \in ValueNumbers, u \in {"mm", "kg"}} \cup
               {a \o sep \o b : a \in {"5mm", "12mm"}, b \in {"5mm", "12mm"}, sep \in Separators}

\* C16: a text that is already metric is returned as it is, and converting the
\* result of a conversion changes nothing (every text of the model, those with
\* a repeated quantity included).
C16_MetricFixedAndIdempotent ==
    /\ (converted # <<>> /\ conv_text \in MetricTexts) => converted[1] = conv_text
    /\ Len(converted) = 2 => converted[2] = converted[1]

\* C16 witness: a text with an inch and a pound quantity was converted twice
C16_Witness ==
    /\ conv_pc = "twice" /\ conv_text = "12 in and 5 lbs"
    /\ converted = <<"304.8mm and 2.27kg", "304.8mm and 2.27kg">>

RepeatedNumbers == {"5", "12"}

\* the quantity of a unit as the source converts it
AsMetric(n, u) == CASE u = " in" -> InchesAsMm[n] [] u = " ft" -> FeetAsMm[n] [] u = " lbs" -> PoundsAsKg[n]

\* C17 as stated: when the text has the same measurement literal twice, only its
\* first occurrence is replaced and the repeated one is left unconverted.
C17_RepeatedLiteralLeftUnconverted ==
    converted # <<>> =>
        \A n \in RepeatedNumbers, u \in {" in", " ft", " lbs"}, sep \in Separators :
            conv_text = n \o u \o sep \o n \o u => converted[1] = AsMetric(n, u) \o sep \o n \o u

\* C17 amended: when the text has the same measurement literal twice, both
\* occurrences are converted: each match replaces the first occurrence that is left.
C17_RepeatedLiteralConvertedToo ==
    converted # <<>> =>
        \A n \in RepeatedNumbers, u \in {" in", " ft", " lbs"}, sep \in Separators :
            conv_text = n \o u \o sep \o n \o u => converted[1] = AsMetric(n, u) \o sep \o AsMetric(n, u)

\* C17 witness: "5 in x 5 in" was converted
C17_Witness == conv_pc = "once" /\ conv_text = "5 in x 5 in" /\ converted = <<"127.0mm x 127.0mm">>

(***************************************************************************)
(* Properties of the aggregated record: currency, weight, name             *)
(***************************************************************************)
\* C18: every aggregated record with a non-empty price has a non-empty
\* regular_price_aud, equal to the price converted by convert_usd_to_aud at the
\* fixed rate 0.62.
C18_PricedRecordHasAudPrice ==
    (agg_pc = "done" /\ Found(agg_ret) /\ agg_ret[1]["price"] # "") =>
        /\ agg_ret[1]["regular_price_aud"] # ""
        /\ agg_ret[1]["regular_price_aud"] = convert_usd_to_aud(agg_ret[1]["price"])

\* the page's specification table has the row Weight: 5 lbs
HasWeightRow(soup) ==
    /\ Found(spec_table(soup))
    /\ \E r \in 1..Len(spec_table(soup)[1]) : spec_table(soup)[1][r] = Row("Weight", "5 lbs")

\* C19: for a page whose specification table has the row Weight: 5 lbs, the weight
\* of the aggregated record contains "2.27kg" when the aggregation completes, the
\* shipping-dimension step included.
C19_WeightKeepsNormalizedValue ==
    (agg_pc = "done" /\ agg_raise = 0 /\ soup_id # 0 /\ HasWeightRow(Pages[soup_id]) /\ Found(agg_ret)) =>
        Contains(agg_ret[1]["weight"], "2.27kg")

\* C20: a document with no h1 heading and no title element yields no record,
\* whatever else the page contains.
C20_NoHeadingNoTitleNoRecord ==
    (agg_pc = "done" /\ soup_id # 0 /\ ~Found(Pages[soup_id].h1) /\ ~Found(Pages[soup_id].title)) =>
        ~Found(agg_ret)

\* the page has an h1 heading with text in it
UsableH1(soup) == Found(soup.h1) /\ Strip(TextOf(soup.h1)) # ""

\* C21: when a page has no usable h1 heading but has a title, the record's model is
\* the trimmed first segment of the title before '|' (title "Acme X100 | Printers"
\* gives model "Acme X100" and an empty brand), and the record is returned.
C21_TitleIsFallbackForHeading ==
    (agg_pc = "done" /\ agg_raise = 0 /\ soup_id # 0
       /\ Found(Pages[soup_id].title) /\ ~UsableH1(Pages[soup_id])) =>
        /\ Found(agg_ret)
        /\ agg_ret[1]["model"] = Strip(Split(TextOf(Pages[soup_id].title), "|")[1])
        /\ (TextOf(Pages[soup_id].title) = "Acme X100 | Printers" =>
                agg_ret[1]["model"] = "Acme X100" /\ agg_ret[1]["brand"] = "")

(***************************************************************************)
(* Properties of clean_column_name                                         *)
(***************************************************************************)
\* what Python's clean_column_name returns for labels of the pages
CleanedLabels ==
    ("OS Compatibility" :> "operating_systems") @@ ("Weight / Dimensions" :> "dimensions_weight") @@
    ("Card Sizes Accepted" :> "card_sizes") @@ ("Card Thickness Accepted" :> "card_thickness") @@
    ("Printer Color Capability" :> "printer_color") @@ ("Print Resolution (DPI)" :> "print_resolution") @@
    ("Printing Speeds (sec/card)" :> "print_speed_seconds") @@ ("Printing Capability" :> "printing") @@
    ("Input Hopper Capacity" :> "input_capacity") @@ ("Output Hopper Capacity" :> "output_capacity") @@
    ("Ribbon Options" :> "ribbon") @@ ("(!)" :> "") @@ ("_Accepted" :> "") @@ (" Weight " :> "weight") @@
    ("Print \t Speed" :> "print_speed") @@ ("Model" :> "model") @@
    ("Card Options Available" :> "card_available") @@ ("" :> None)

\* lower-cased, punctuation removed, whitespace runs turned into single underscores
Joined(x) == Underscored(Sub(NotWordNorSpace, "", Lower(x)))

\* C22: "OS Compatibility" is mapped to "operating_systems" and the empty label to
\* None; a non-empty label is lower-cased, loses its punctuation, gets single
\* underscores for its whitespace runs, loses the noise tokens and is then looked
\* up in the synonym table.
C22_LabelsAreCanonicalized ==
    col_clean # <<>> =>
        /\ col_name \in DOMAIN CleanedLabels => col_clean[1] = CleanedLabels[col_name]
        /\ col_name # "" =>
              /\ col_clean[1] = Synonym(StripNoise(Joined(col_name)))
              /\ Lower(col_clean[1]) = col_clean[1]
              /\ ~HasWhitespace(col_clean[1])

\* C22 witness: the label "OS Compatibility" was canonicalized
C22_Witness == col_pc = "once" /\ col_name = "OS Compatibility" /\ col_clean = <<"operating_systems">>

\* C23: clean_column_name is idempotent: its result, fed back in as a label, gives
\* the same result (labels made only of punctuation included).
C23_CleanIsIdempotent == Len(col_clean) = 2 => col_clean[2] = col_clean[1]

\* C30: every entry of the synonym table is effective: a label whose lower-cased,
\* underscore-joined form is a key of the table is mapped to the table's value.
C30_EverySynonymIsEffective ==
    col_clean # <<>> =>
        \A k \in DOMAIN replacements : Underscored(Lower(col_name)) = k => col_clean[1] = replacements[k]

(***************************************************************************)
(* Properties of convert_usd_to_aud                                        *)
(***************************************************************************)
\* the price without currency symbol, thousands separators and outer blanks
BarePrice(p) == Strip(ReplaceAll(ReplaceAll(p, "$", ""), ",", ""))

\* digits with at most one decimal point among them
IsDecimal(t) ==
    /\ t # "" /\ InChars(CharAt(t, 1), DigitChars)
    /\ \A i \in 1..Len(t) : InChars(CharAt(t, i), DigitChars \o ".")
    /\ Cardinality({i \in 1..Len(t) : CharAt(t, i) = "."}) <= 1

\* the text a is p * 0.62 rounded to hundredths: a has at most 2 decimals and is
\* no further than half a hundredth from the product
IsRoundedProduct(a, p) ==
    /\ IsDecimal(a) /\ ToFloat(a).d <= 2
    /\ LET hundredths == ToFloat(a).n * Pow10(2 - ToFloat(a).d)
           gap == hundredths * Pow10(ToFloat(p).d) - ToFloat(p).n * 62
       IN  2 * gap <= Pow10(ToFloat(p).d) /\ -2 * gap <= Pow10(ToFloat(p).d)

ShortSource(data) ==
    IF data["highlights"] # "" THEN get_text(data["highlights"])
    ELSE IF data["description"] # "" /\ Found(FirstParagraph(data["description"]))
    THEN TextOf(FirstParagraph(data["description"]))
    ELSE ""

\* C26: short_description comes from the plain text of the highlights when there
\* are highlights, else from the first paragraph of the description; it has at most
\* 203 characters and ends with the "..." ellipsis only when the text it comes from
\* is longer than 200 characters (shorter text is kept as it is).
C26_ShortDescriptionIsTruncatedSource ==
    (agg_pc = "done" /\ agg_raise = 0 /\ soup_id # 0) =>
        /\ Len(agg_data["short_description"]) <= ShortLen + 3
        /\ agg_data["short_description"] =
              IF Len(ShortSource(agg_data)) > ShortLen
              THEN SubSeq(ShortSource(agg_data), 1, ShortLen) \o "..."
              ELSE ShortSource(agg_data)

(***************************************************************************)
(* Properties of the list extractors                                       *)
(***************************************************************************)
\* the rows of the document's specification table
DocRows == IF Found(spec_table(doc)) THEN spec_table(doc)[1] ELSE <<>>

\* the row has a label cell and a value cell, and its canonical key and its value
\* are non-empty
Qualifies(row) ==
    /\ Found(row.header) /\ Found(row.data)
    /\ RowKey(row) # None /\ RowKey(row) # "" /\ RowValue(row) # ""

\* the last qualifying row with the key
LastRowWith(key) ==
    CHOOSE i \in 1..Len(DocRows) :
        /\ Qualifies(DocRows[i]) /\ RowKey(DocRows[i]) = key
        /\ \A j \in (i + 1)..Len(DocRows) : ~(Qualifies(DocRows[j]) /\ RowKey(DocRows[j]) = key)

\* C24: extract_specifications_table inserts a row exactly when it has a label cell
\* and a value cell and both the canonical key and the value are non-empty; of two
\* rows with the same canonical key the later one gives the value; the value stored
\* is convert_measurements of the cell text.
C24_RowsInsertedLastWins ==
    doc_pc = "specifications" =>
        /\ DOMAIN extracted = {RowKey(DocRows[i]) : i \in {j \in 1..Len(DocRows) : Qualifies(DocRows[j])}}
        /\ \A key \in DOMAIN extracted :
              extracted[key] = convert_measurements(Strip(TextOf(DocRows[LastRowWith(key)].data)))

\* C24 witness: two rows with the canonical key weight, the later one's value stored
C24_Witness ==
    /\ doc_pc = "specifications"
    /\ DocRows = <<Row("Weight", "5 lbs"), Row(" weight ", "12 in")>>
    /\ extracted = ("weight" :> "304.8mm")

\* the sequence has no element twice
NoDuplicates(q) == \A i, j \in 1..Len(q) : q[i] = q[j] => i = j

\* C27: the category list is accumulated unique-in-order over the breadcrumb
\* locators: no category text appears twice in it, even when one breadcrumb link
\* is selected by several of the locators.
C27_CategoriesAreUnique ==
    doc_pc = "categories" =>
        /\ NoDuplicates(extracted)
        /\ doc_data.categories = Join(extracted, "|")

\* the candidate address of an image element, made absolute when it starts with "/"
Candidate(img) == IF StartsWith(ImgSrc(img), "/") THEN base_url \o ImgSrc(img) ELSE ImgSrc(img)

\* the element's candidate is kept when nothing equal was collected before
Acceptable(img) ==
    /\ ImgSrc(img) # ""
    /\ ~Contains(ImgSrc(img), "placeholder") /\ ~Contains(ImgSrc(img), "loading")
    /\ StartsWith(Candidate(img), "http")

\* the elements of q from the second on
Rest(q) == IF q = <<>> THEN <<>> ELSE Tail(q)

\* C28: the image list has no duplicates, every entry starts with "http" and
\* contains neither "placeholder" nor "loading", the entries are in order of first
\* appearance over the selected elements; the first image is featured_image and the
\* remaining ones, in the same order, are gallery_images, so the featured image
\* is never in the gallery.
C28_ImagesUniqueFeaturedFirst ==
    doc_pc = "images" =>
        /\ NoDuplicates(extracted)
        /\ \A i \in 1..Len(extracted) :
              /\ StartsWith(extracted[i], "http")
              /\ ~Contains(extracted[i], "placeholder") /\ ~Contains(extracted[i], "loading")
        /\ {extracted[i] : i \in 1..Len(extracted)} =
              {Candidate(doc.imgs[k]) : k \in {n \in 1..Len(doc.imgs) : Acceptable(doc.imgs[n])}}
        /\ \A i, j \in 1..Len(extracted) :
              i < j => \E k \in 1..Len(doc.imgs) :
                          /\ Candidate(doc.imgs[k]) = extracted[i]
                          /\ \A n \in 1..k : Candidate(doc.imgs[n]) # extracted[j]
        /\ doc_data.featured_image = (IF extracted = <<>> THEN "" ELSE extracted[1])
        /\ doc_data.gallery_images = Join(Rest(extracted), "|")
        /\ \A i \in 2..Len(extracted) : extracted[i] # doc_data.featured_image

\* C28 witness: one address given twice (relative, then absolute) and collected once
C28_Witness ==
    /\ doc_pc = "images"
    /\ doc.imgs = <<Img("/media/a.png"), Img("https://www.alphacard.com/media/a.png")>>
    /\ extracted = <<"https://www.alphacard.com/media/a.png">>
    /\ doc_data.featured_image = "https://www.alphacard.com/media/a.png"
    /\ doc_data.gallery_images = ""

(***************************************************************************)
(* Properties of get_page                                                  *)
(***************************************************************************)
\* the attempts so far that failed
FailedAttempts == {i \in 1..Len(requests) : requests[i] # "ok"}

\* the sleeps of n attempts: 2 before every attempt and 5 * i between the i-th
\* attempt and the next one
RECURSIVE SleepsOf(_)
SleepsOf(n) ==
    IF n = 0 THEN <<>>
    ELSE SleepsOf(n - 1) \o (IF n > 1 THEN <<5 * (n - 1)>> ELSE <<>>) \o <<2>>

\* C29: get_page makes at most `retries` request attempts, returns the parsed
\* document at the first successful attempt without further attempts, returns None
\* without raising exactly when every attempt failed, and always terminates; the
\* backoff sleep happens only between attempts, not after the last failed one.
C29_BoundedRetries ==
    /\ <>(fetch_pc = "done")
    /\ [](/\ Len(requests) <= retries
          /\ \A i \in 1..(Len(requests) - 1) : requests[i] # "ok"
          /\ fetch_pc = "done" =>
                /\ fetch_ret \in {"soup", None}
                /\ fetch_ret = "soup" <=> (requests # <<>> /\ requests[Len(requests)] = "ok")
                /\ fetch_ret = None <=> (FailedAttempts = 1..Len(requests) /\ Len(requests) = retries)
                /\ slept = SleepsOf(Len(requests)))

\* C29 witness: three attempts, all failed, None returned after two backoff sleeps
C29_Witness ==
    /\ fetch_pc = "done" /\ retries = 3 /\ fetch_ret = None
    /\ requests = <<"Timeout", "HTTPError", "ConnectionError">>
    /\ slept = <<2, 5, 2, 10, 2>>
====
